---- MODULE Spec2Model ----
(***************************************************************************)
(* Event scraper: the three-layer deduplication engine (deduplication.py)  *)
(* and the ingestion run that drives it (pipeline.py, sheets.py).          *)
(*                                                                         *)
(* Text is a sequence of one-character strings, so that lower-casing,      *)
(* stripping, whitespace collapsing, truncation and token sorting are      *)
(* computed character by character as the Python code computes them.       *)
(***************************************************************************)
EXTENDS Integers, Sequences, FiniteSets, TLC

VARIABLES
    sheet,           \* rows of the "events" worksheet, in sheet order
    pc,              \* position of the run: "idle", "classify", "unit", "done"
    existing,        \* what load_existing_events returned to this run
    source_ids,      \* working set of known source ids (pipeline.py:70)
    content_hashes,  \* working set of known content hashes (pipeline.py:71)
    events_list,     \* working list of {title, start_date, city} (pipeline.py:72)
    new_rows,        \* rows accepted in this run, in acceptance order
    stats,           \* the five counters of the run
    event,           \* the candidate classified last
    result,          \* what is_duplicate returned for it (or the raised error)
    fuzzy_threshold, \* the threshold is_duplicate was called with
    seen,            \* number of candidates the loop has consumed in this run
    runs,            \* number of runs started
    fed,             \* number of candidates fed to the runs so far
    probe,           \* arguments and results of a direct call of a pure function
    tasks,           \* the (platform, city, category) fetches scrape_all created
    responses,       \* per task: what the platform answers its request with
    fetch,           \* per task: "created", "running", "ok", "searched", "demo",
                     \* "raised"
    results,         \* per task: the records its run_scraper returned
    semaphore,       \* free permits of asyncio.Semaphore(5)
    first_done,      \* the task whose fetch finished first (0: none yet)
    all_events,      \* the candidate sequence scrape_all returned
    phase,           \* position of run_full_pipeline, or of a direct update_stats
    log,             \* status column of the rows of the "log" worksheet
    refreshed,       \* number of times the stats sheet was rewritten
    stats_sheet,     \* the "stats" worksheet: its rows below the header and
                     \* the row count of its grid
    jobs,            \* per overlapping run_full_pipeline: its local variables
    loop             \* the run whose synchronous code occupies the event loop

scrapeVars == <<tasks, responses, fetch, results, semaphore, first_done>>

otherVars == <<stats_sheet, jobs, loop>>

runVars == <<all_events, phase, log, refreshed, otherVars>>

vars == <<sheet, pc, existing, source_ids, content_hashes, events_list,
          new_rows, stats, event, result, fuzzy_threshold, seen, runs, fed, probe,
          scrapeVars, runVars>>

\* asyncio.Semaphore(5)
SemaphoreLimit == 5

\* no scrape_all in progress
NoScrape ==
    /\ tasks = <<>>
    /\ responses = <<>>
    /\ fetch = <<>>
    /\ results = <<>>
    /\ semaphore = SemaphoreLimit
    /\ first_done = 0

\* the rows of the grid ensure_sheets_exist creates a worksheet with
GridRows == 10000

\* a worksheet is the rows below its header and the number of rows of its
\* grid; this is the worksheet of sheets.py:74-75
NewWorksheet == [rows |-> <<>>, row_count |-> GridRows]

\* the stats worksheet as created, no overlapping runs
NoOther ==
    /\ stats_sheet = NewWorksheet
    /\ jobs = <<>>
    /\ loop = "none"

\* no run_full_pipeline in progress
NoRun ==
    /\ all_events = <<>>
    /\ phase = "none"
    /\ log = <<>>
    /\ refreshed = 0
    /\ NoOther

----------------------------------------------------------------------------
(* Characters *)

\* The characters of the model in code-point order (the order Python's
\* sorted() uses on str).
Ascii ==
    <<"\t", " ", "!", "-", "0", "1", "2", "3", "4", "5", "6", "7", "8", "9", ":",
      "A", "B", "C", "D", "E", "F", "G", "H", "I", "J", "K", "L", "M",
      "N", "O", "P", "Q", "R", "S", "T", "U", "V", "W", "X", "Y", "Z", "_",
      "a", "b", "c", "d", "e", "f", "g", "h", "i", "j", "k", "l", "m",
      "n", "o", "p", "q", "r", "s", "t", "u", "v", "w", "x", "y", "z", "|">>

\* ord(c): the position of each character in that order
OrdOf == [c \in {Ascii[i] : i \in 1..Len(Ascii)} |-> CHOOSE i \in 1..Len(Ascii) : Ascii[i] = c]

Ord(c) == OrdOf[c]

UpperCase == <<"A", "B", "C", "D", "E", "F", "G", "H", "I", "J", "K", "L", "M",
               "N", "O", "P", "Q", "R", "S", "T", "U", "V", "W", "X", "Y", "Z">>
LowerCase == <<"a", "b", "c", "d", "e", "f", "g", "h", "i", "j", "k", "l", "m",
               "n", "o", "p", "q", "r", "s", "t", "u", "v", "w", "x", "y", "z">>

\* str.lower() of each character
LowerOf ==
    [c \in {Ascii[i] : i \in 1..Len(Ascii)} |->
        IF \E i \in 1..Len(UpperCase) : UpperCase[i] = c
        THEN LowerCase[CHOOSE i \in 1..Len(UpperCase) : UpperCase[i] = c]
        ELSE c]

\* str.lower() on one character
LowerChar(c) == LowerOf[c]

\* \s of the regular expressions, and the characters str.strip() removes
IsSpace(c) == c \in {" ", "\t"}

\* \w of the regular expressions: letters, digits and the underscore
IsWord(c) == ~IsSpace(c) /\ c \notin {"!", "-", ":", "|"}

\* Python's None in a text field: not a text, since "None" is no character
NoneVal == <<"None">>

IsText(x) == x # NoneVal

----------------------------------------------------------------------------
(* normalize_text, normalize_date *)

Lower(s) == [i \in 1..Len(s) |-> LowerChar(s[i])]

SetMin(S) == CHOOSE m \in S : \A n \in S : m <= n

SetMax(S) == CHOOSE m \in S : \A n \in S : n <= m

\* the positions of s that hold a non-whitespace character
NonSpace(s) == {i \in 1..Len(s) : ~IsSpace(s[i])}

\* str.strip(): what lies between the first and the last non-whitespace
\* character, nothing when there is none
Strip(s) ==
    IF NonSpace(s) = {} THEN <<>>
    ELSE SubSeq(s, SetMin(NonSpace(s)), SetMax(NonSpace(s)))

\* re.sub(r'\s+', ' ', text): every maximal run of whitespace becomes one
\* space; a run is represented by its first character
CollapseSpaces(s) ==
    LET kept == SelectSeq([i \in 1..Len(s) |-> i],
                          LAMBDA i : ~IsSpace(s[i]) \/ i = 1 \/ ~IsSpace(s[i - 1]))
    IN [k \in 1..Len(kept) |-> IF IsSpace(s[kept[k]]) THEN " " ELSE s[kept[k]]]

\* re.sub(r'[^\w\s]', '', text): drop what is neither word character nor space
RemoveSpecial(s) == SelectSeq(s, LAMBDA c : IsWord(c) \/ IsSpace(c))

normalize_text(text) == RemoveSpecial(CollapseSpaces(Strip(Lower(text))))

\* the length normalize_date keeps
DateLen == 10

Take(s, n) == SubSeq(s, 1, IF Len(s) < n THEN Len(s) ELSE n)

\* None and "" are falsy; everything else is stripped, then cut to 10 characters
normalize_date(date_str) ==
    IF date_str = NoneVal \/ date_str = <<>> THEN <<>>
    ELSE Take(Strip(date_str), DateLen)

----------------------------------------------------------------------------
(* compute_content_hash *)

\* a join that leaves the delimiter out
JoinPlain(a, b, c) == a \o b \o c

\* "|".join([...]) of three texts
JoinPipe(a, b, c) == a \o <<"|">> \o b \o <<"|">> \o c

\* hashlib.sha256(...).hexdigest(): the digest is taken to be injective, so it
\* is represented by the tagged text it was computed from
sha256_hexdigest(s) == <<"sha256">> \o s

\* the string that is hashed (deduplication.py:35-39)
fingerprint(title, start_date, city) ==
    JoinPipe(normalize_text(title), normalize_date(start_date), normalize_text(city))

\* normalize_text(None) raises AttributeError (None has no .lower)
HashRaises(title, city) == ~IsText(title) \/ ~IsText(city)

compute_content_hash(title, start_date, city) ==
    sha256_hexdigest(fingerprint(title, start_date, city))

----------------------------------------------------------------------------
(* rapidfuzz.fuzz.token_sort_ratio *)

\* lexicographic order of two texts by code point: a < b
TextLess(a, b) ==
    LET n == IF Len(a) < Len(b) THEN Len(a) ELSE Len(b)
        diff == {i \in 1..n : a[i] # b[i]}
    IN IF diff = {} THEN Len(a) < Len(b)
       ELSE Ord(a[SetMin(diff)]) < Ord(b[SetMin(diff)])

\* str.split(): the maximal runs of non-space characters, in order; a run
\* starts after a space or at the beginning and ends before the next space
SplitTokens(s) ==
    LET starts == SelectSeq([i \in 1..Len(s) |-> i],
                            LAMBDA i : ~IsSpace(s[i]) /\ (i = 1 \/ IsSpace(s[i - 1])))
        EndOf(i) == SetMin({j \in i..Len(s) : j = Len(s) \/ IsSpace(s[j + 1])})
    IN [k \in 1..Len(starts) |-> SubSeq(s, starts[k], EndOf(starts[k]))]

\* insert token w into the sorted token list ts
RECURSIVE InsertSorted(_, _)
InsertSorted(w, ts) ==
    IF ts = <<>> THEN <<w>>
    ELSE IF TextLess(w, Head(ts)) THEN <<w>> \o ts
    ELSE <<Head(ts)>> \o InsertSorted(w, Tail(ts))

\* sorted(tokens)
RECURSIVE SortTokens(_)
SortTokens(ts) ==
    IF ts = <<>> THEN <<>> ELSE InsertSorted(Head(ts), SortTokens(Tail(ts)))

\* " ".join(tokens)
RECURSIVE JoinSpace(_)
JoinSpace(ts) ==
    IF ts = <<>> THEN <<>>
    ELSE IF Len(ts) = 1 THEN Head(ts)
    ELSE Head(ts) \o <<" ">> \o JoinSpace(Tail(ts))

TokenSort(s) == JoinSpace(SortTokens(SplitTokens(s)))

\* one row of the longest-common-subsequence table from the row before it:
\* prev[j] is the LCS length of the characters before x with the first j - 1
\* characters of b, the result is the same with x included.  An entry grows,
\* by one, exactly when x can be matched with a character b[k], k < j, that
\* no common subsequence of length prev[j] needs
LcsRow(x, b, prev) ==
    [j \in 1..(Len(b) + 1) |->
        IF \E k \in 1..(j - 1) : b[k] = x /\ prev[k] = prev[j]
        THEN prev[j] + 1 ELSE prev[j]] \o <<>>

\* the table row after the characters a[lo..hi], starting from row prev
RECURSIVE LcsRows(_, _, _, _, _)
LcsRows(a, b, lo, hi, prev) ==
    IF lo > hi THEN prev
    ELSE IF lo = hi THEN LcsRow(a[lo], b, prev)
    ELSE LET mid == (lo + hi) \div 2
             upper == LcsRows(a, b, lo, mid, prev)
         \* the rows of the first half are complete before the second half starts
         IN IF Len(upper) = Len(prev) THEN LcsRows(a, b, mid + 1, hi, upper)
            ELSE upper

\* length of the longest common subsequence of a and b
Lcs(a, b) == LcsRows(a, b, 1, Len(a), [j \in 1..(Len(b) + 1) |-> 0])[Len(b) + 1]

----------------------------------------------------------------------------
(***************************************************************************)
(* The double-precision arithmetic of fuzz.ratio.  rapidfuzz computes      *)
(* (1.0 - dist / maximum) * 100 in IEEE-754 doubles, each operation        *)
(* rounded to nearest, ties to even.  A double is [m, e], the value        *)
(* m * 2^e, with m a natural number kept as its base-2^15 limbs, lowest    *)
(* first (TLC integers have 32 bits), and m odd or zero.                   *)
(***************************************************************************)

Radix == 2^15

LimbBits == 15

\* the bits of a double's significand
MantissaBits == 53

Trim(x) ==
    LET nz == {i \in 1..Len(x) : x[i] # 0}
    IN IF nz = {} THEN <<>> ELSE SubSeq(x, 1, SetMax(nz))

FromInt(k) == Trim(<<k % Radix, (k \div Radix) % Radix, k \div (Radix * Radix)>>)

RECURSIVE MulCarry(_, _, _, _)
MulCarry(x, k, i, carry) ==
    IF i > Len(x) THEN (IF carry = 0 THEN <<>> ELSE <<carry>>)
    ELSE LET t == x[i] * k + carry
         IN <<t % Radix>> \o MulCarry(x, k, i + 1, t \div Radix)

\* x * k for 0 < k <= Radix
MulSmall(x, k) == MulCarry(x, k, 1, 0)

RECURSIVE DivFrom(_, _, _)
DivFrom(x, k, i) ==
    IF i > Len(x) THEN [q |-> <<>>, r |-> 0]
    ELSE LET up == DivFrom(x, k, i + 1)
             t == up.r * Radix + x[i]
         IN [q |-> <<t \div k>> \o up.q, r |-> t % k]

\* quotient and remainder of x by k, 0 < k <= Radix
DivSmall(x, k) ==
    LET a == DivFrom(x, k, 1) IN [q |-> Trim(a.q), r |-> a.r]

RECURSIVE SubFrom(_, _, _, _)
SubFrom(x, y, i, borrow) ==
    IF i > Len(x) THEN <<>>
    ELSE LET t == x[i] - (IF i <= Len(y) THEN y[i] ELSE 0) - borrow
         IN <<IF t < 0 THEN t + Radix ELSE t>>
              \o SubFrom(x, y, i + 1, IF t < 0 THEN 1 ELSE 0)

\* x - y for x >= y
Sub(x, y) == Trim(SubFrom(x, y, 1, 0))

RECURSIVE IncFrom(_, _)
IncFrom(x, i) ==
    IF i > Len(x) THEN <<1>>
    ELSE IF x[i] + 1 < Radix THEN <<x[i] + 1>> \o SubSeq(x, i + 1, Len(x))
    ELSE <<0>> \o IncFrom(x, i + 1)

\* x + 1
Inc(x) == IncFrom(x, 1)

\* x <= y
LessEq(x, y) ==
    IF Len(x) # Len(y) THEN Len(x) < Len(y)
    ELSE \/ x = y
         \/ \E i \in 1..Len(x) :
               /\ x[i] < y[i]
               /\ \A j \in (i + 1)..Len(x) : x[j] = y[j]

Odd(x) == x # <<>> /\ x[1] % 2 = 1

\* the number of bits of x
BitLen(x) ==
    IF x = <<>> THEN 0
    ELSE LimbBits * (Len(x) - 1)
           + (CHOOSE b \in 1..LimbBits : 2^(b - 1) <= x[Len(x)] /\ x[Len(x)] < 2^b)

\* x * 2^k
ShiftLeft(x, k) ==
    IF x = <<>> THEN <<>>
    ELSE [i \in 1..(k \div LimbBits) |-> 0] \o MulSmall(x, 2^(k % LimbBits))

\* x \div 2^k
ShiftRight(x, k) ==
    DivSmall(SubSeq(x, (k \div LimbBits) + 1, Len(x)), 2^(k % LimbBits)).q

\* x / 2^k rounded to the nearest integer, ties to even (k >= 1)
RoundShift(x, k) ==
    LET q == ShiftRight(x, k)
        y == ShiftRight(x, k - 1)
        sticky == ShiftLeft(y, k - 1) # x
    IN IF Odd(y) /\ (sticky \/ Odd(q)) THEN Inc(q) ELSE q

\* x * 2^e rounded to a double
Round(x, e) ==
    LET b == BitLen(x)
    IN IF b <= MantissaBits THEN [m |-> x, e |-> e]
       ELSE [m |-> RoundShift(x, b - MantissaBits), e |-> e + b - MantissaBits]

\* the same double with an odd (or zero) m
Canonical(f) ==
    IF f.m = <<>> THEN [m |-> <<>>, e |-> 0]
    ELSE LET z == SetMin({i \in 1..Len(f.m) : f.m[i] # 0}) - 1
             t == CHOOSE t \in 0..(LimbBits - 1) :
                     /\ f.m[z + 1] % 2^t = 0
                     /\ f.m[z + 1] % 2^(t + 1) # 0
         IN [m |-> ShiftRight(f.m, LimbBits * z + t), e |-> f.e + LimbBits * z + t]

\* the double of the integer k
Double(k) == Canonical([m |-> FromInt(k), e |-> 0])

\* dist / maximum for 0 < dist < maximum < Radix
Quotient(dist, maximum) ==
    LET t == CHOOSE t \in 1..LimbBits :
                dist * 2^t >= maximum /\ dist * 2^(t - 1) < maximum
        dv == DivSmall(ShiftLeft(FromInt(dist * 2^t), MantissaBits - 1), maximum)
        up == 2 * dv.r > maximum \/ (2 * dv.r = maximum /\ Odd(dv.q))
    IN [m |-> IF up THEN Inc(dv.q) ELSE dv.q, e |-> 0 - (MantissaBits - 1 + t)]

\* 1.0 - q for a double 0 < q < 1
OneMinus(q) == Round(Sub(ShiftLeft(<<1>>, 0 - q.e), q.m), q.e)

\* f * 100
Times100(f) == Round(MulSmall(f.m, 100), f.e)

\* (1.0 - dist / maximum) * 100
NormalizedSimilarity100(dist, maximum) ==
    IF maximum = 0 \/ dist = 0 THEN Double(100)
    ELSE IF dist = maximum THEN Double(0)
    ELSE Canonical(Times100(OneMinus(Quotient(dist, maximum))))

\* a < b on doubles
DoubleLess(a, b) ==
    IF a.e >= b.e THEN ~LessEq(b.m, ShiftLeft(a.m, a.e - b.e))
    ELSE ~LessEq(ShiftLeft(b.m, b.e - a.e), a.m)

\* the length sums up to which the values of NormalizedSimilarity100 are
\* computed once and kept
TableSum == 50

\* SimilarityTable[maximum][dist + 1] = NormalizedSimilarity100(dist, maximum)
SimilarityTable ==
    [maximum \in 1..TableSum |->
        [d \in 1..(maximum + 1) |-> NormalizedSimilarity100(d - 1, maximum)] \o <<>>]
        \o <<>>

\* fuzz.ratio: the normalized Indel similarity times 100; the Indel distance
\* of a and b is len(a) + len(b) - 2 * lcs
ratio(a, b) ==
    LET maximum == Len(a) + Len(b)
        dist == maximum - 2 * Lcs(a, b)
    IN IF maximum \in 1..TableSum THEN SimilarityTable[maximum][dist + 1]
       ELSE NormalizedSimilarity100(dist, maximum)

token_sort_ratio(s1, s2) == ratio(TokenSort(s1), TokenSort(s2))

\* a comparison that excludes the threshold itself
StrictlyAbove(sim, threshold) == DoubleLess(Double(threshold), sim)

\* similarity >= threshold
AtLeast(sim, threshold) == ~DoubleLess(sim, Double(threshold))

----------------------------------------------------------------------------
(* is_duplicate *)

\* str(x) of a text field: None prints as the text None
Str(x) == IF x = NoneVal THEN <<"N", "o", "n", "e">> ELSE x

\* the default of the fuzzy_threshold parameter
DefaultThreshold == 85

NoScore == Double(0)

\* the values is_duplicate returns, and the exception it lets escape
ExactDuplicate == [dup |-> TRUE, reason |-> "exact_source_id", score |-> NoScore]
HashDuplicate == [dup |-> TRUE, reason |-> "content_hash", score |-> NoScore]
FuzzyDuplicate(sim) == [dup |-> TRUE, reason |-> "fuzzy_match", score |-> sim]
NotDuplicate == [dup |-> FALSE, reason |-> "", score |-> NoScore]
Raised == [dup |-> FALSE, reason |-> "AttributeError", score |-> NoScore]

\* layer 1: the stripped source id is non-empty and known
ExactLayer(ev, existing_source_ids) ==
    LET source_id == Strip(Str(ev.source_id))
    IN source_id # <<>> /\ source_id \in existing_source_ids

\* layer 2: the content hash is known
HashLayer(ev, existing_hashes) ==
    compute_content_hash(ev.title, ev.start_date, ev.city) \in existing_hashes

\* a gate that does not compare the cities
FuzzyGateAnyCity(ev, rec) ==
    /\ normalize_date(rec.start_date) = normalize_date(ev.start_date)
    /\ normalize_date(ev.start_date) # <<>>

\* a gate that lets an empty normalized date through
FuzzyGateEmptyDate(ev, rec) ==
    /\ normalize_date(rec.start_date) = normalize_date(ev.start_date)
    /\ normalize_text(rec.city) = normalize_text(ev.city)

\* a gate that does not compare the dates
FuzzyGateAnyDate(ev, rec) ==
    /\ normalize_text(rec.city) = normalize_text(ev.city)
    /\ normalize_date(ev.start_date) # <<>>

\* the gate of layer 3: same_date and same_city and new_date_norm
FuzzyGate(ev, rec) ==
    LET new_date_norm == normalize_date(ev.start_date)
        new_city_norm == normalize_text(ev.city)
        same_date == normalize_date(rec.start_date) = new_date_norm
        same_city == normalize_text(rec.city) = new_city_norm
    IN same_date /\ same_city /\ new_date_norm # <<>>

\* the similarity layer 3 computes for one indexed record
Similarity(ev, rec) ==
    token_sort_ratio(normalize_text(ev.title), normalize_text(rec.title))

\* the loop body returns for this record
FuzzyHit(ev, rec, threshold) ==
    FuzzyGate(ev, rec) /\ AtLeast(Similarity(ev, rec), threshold)

\* a scan that returns the best-scoring record instead of the first
BestFuzzy(ev, existing_events, threshold) ==
    IF \E k \in 1..Len(existing_events) : FuzzyHit(ev, existing_events[k], threshold)
    THEN CHOOSE k \in 1..Len(existing_events) :
            /\ FuzzyHit(ev, existing_events[k], threshold)
            /\ \A j \in 1..Len(existing_events) :
                  FuzzyHit(ev, existing_events[j], threshold)
                  => ~DoubleLess(Similarity(ev, existing_events[k]),
                                 Similarity(ev, existing_events[j]))
    ELSE 0

\* a scan that compares the candidate with the last record only
LastFuzzy(ev, existing_events, threshold) ==
    IF /\ existing_events # <<>>
       /\ FuzzyHit(ev, existing_events[Len(existing_events)], threshold)
    THEN Len(existing_events)
    ELSE 0

\* the record at which the loop over existing_events returns (0: it runs out)
FirstFuzzy(ev, existing_events, threshold) ==
    IF \E k \in 1..Len(existing_events) : FuzzyHit(ev, existing_events[k], threshold)
    THEN CHOOSE k \in 1..Len(existing_events) :
            /\ FuzzyHit(ev, existing_events[k], threshold)
            /\ \A j \in 1..(k - 1) : ~FuzzyHit(ev, existing_events[j], threshold)
    ELSE 0

\* layer 3
FuzzyLayer(ev, existing_events, threshold) ==
    LET k == FirstFuzzy(ev, existing_events, threshold)
    IN IF k # 0 THEN FuzzyDuplicate(Similarity(ev, existing_events[k]))
       ELSE NotDuplicate

\* the layers with the content hash consulted before the source id
is_duplicate_hash_first(ev, existing_source_ids, existing_hashes, existing_events, threshold) ==
    IF HashRaises(ev.title, ev.city) THEN Raised
    ELSE IF HashLayer(ev, existing_hashes) THEN HashDuplicate
    ELSE IF ExactLayer(ev, existing_source_ids) THEN ExactDuplicate
    ELSE FuzzyLayer(ev, existing_events, threshold)

is_duplicate(ev, existing_source_ids, existing_hashes, existing_events, threshold) ==
    IF ExactLayer(ev, existing_source_ids) THEN ExactDuplicate
    ELSE IF HashRaises(ev.title, ev.city) THEN Raised
    ELSE IF HashLayer(ev, existing_hashes) THEN HashDuplicate
    ELSE FuzzyLayer(ev, existing_events, threshold)

----------------------------------------------------------------------------
(* sheets.py: the events worksheet *)

\* dict.get(key, default)
Get(d, key, default) == IF key \in DOMAIN d THEN d[key] ELSE default

\* datetime.now() during a run: the day, and the timestamp of that day the
\* run stamps its rows and its stats with (a run does not cross midnight)
Today == <<"2", "0", "2", "6", "-", "0", "1", "-", "1", "5">>

Now == Today \o <<"T", "0", "9", ":", "0", "0", ":", "0", "0">>

\* prepare_event_row: the columns of the row the run and the stats depend on
prepare_event_row(ev) ==
    [content_hash |-> compute_content_hash(ev.title, ev.start_date, ev.city),
     title |-> ev.title,
     start_date |-> ev.start_date,
     city |-> ev.city,
     platform |-> ev.platform,
     source_id |-> Str(ev.source_id),
     category |-> Get(ev, "category", <<>>),
     is_free |-> IF Get(ev, "is_free", TRUE) THEN "TRUE" ELSE "FALSE",
     scraped_at |-> Now,
     is_active |-> "TRUE"]

\* the {title, start_date, city} entries of the fuzzy index
Lightweight(r) == [title |-> r.title, start_date |-> r.start_date, city |-> r.city]

\* a load that misses the last row of the sheet
LoadWithoutLastRow(rows) ==
    [source_ids |-> {rows[i].source_id : i \in {j \in 1..(Len(rows) - 1) : rows[j].source_id # <<>>}},
     content_hashes |-> {rows[i].content_hash : i \in {j \in 1..(Len(rows) - 1) : rows[j].content_hash # <<>>}},
     events_list |-> [i \in 1..(Len(rows) - 1) |-> Lightweight(rows[i])],
     total |-> Len(rows)]

load_existing_events(rows) ==
    [source_ids |-> {rows[i].source_id : i \in {j \in 1..Len(rows) : rows[j].source_id # <<>>}},
     content_hashes |-> {rows[i].content_hash : i \in {j \in 1..Len(rows) : rows[j].content_hash # <<>>}},
     events_list |-> [i \in 1..Len(rows) |-> Lightweight(rows[i])],
     total |-> Len(rows)]

\* an append that loses the last of the rows it was given
AppendDroppingLast(rows, appended) ==
    rows \o SubSeq(appended, 1, Len(appended) - 1)

\* ws.append_rows(rows)
batch_append_events(rows, appended) == rows \o appended

----------------------------------------------------------------------------
(* The candidates the runs are fed *)

MaxRuns == 2
MaxEvents == 3

AIMeet == <<"A", "I", " ", "M", "e", "e", "t">>
AIMeetVariant == <<"a", "i", " ", " ", "m", "e", "e", "t", "!">>
IMeetups == <<"I", " ", "M", "e", "e", "t", "u", "p", "s">>
AIMeetup == <<"A", "I", " ", "M", "e", "e", "t", "u", "p">>

Day == <<"2", "0", "2", "5", "-", "0", "6", "-", "0", "1">>
DayTime == Day \o <<"T", "1", "8", ":", "0", "0">>
PaddedDay == <<" ">> \o Day
PaddedDayTime == <<" ">> \o DayTime
NoDate == <<>>

Pune == <<"P", "u", "n", "e">>
PuneVariant == <<" ", "p", "u", "n", "e">>
Goa == <<"G", "o", "a">>

Eb1 == <<"e", "b", "_", "1">>
Mu7 == <<"m", "u", "_", "7">>
Ae3 == <<"a", "e", "_", "3", " ">>
NoId == <<>>

Ev(t, d, c, sid, p) ==
    [title |-> t, start_date |-> d, city |-> c, source_id |-> sid, platform |-> p]

\* the event records the scrapers hand to a run
Events ==
    { Ev(AIMeet, Day, Pune, Eb1, "eventbrite"),
      Ev(AIMeet, Day, Pune, Mu7, "meetup"),
      Ev(AIMeetVariant, PaddedDayTime, PuneVariant, Ae3, "allevents"),
      Ev(AIMeet, Day, Goa, Ae3, "allevents"),
      Ev(IMeetups, Day, Pune, Mu7, "meetup"),
      Ev(IMeetups, DayTime, Pune, NoId, "meetup"),
      Ev(AIMeetup, Day, Pune, NoId, "allevents"),
      Ev(AIMeetup, Day, Goa, Eb1, "eventbrite"),
      Ev(AIMeetup, NoDate, Pune, NoId, "allevents"),
      Ev(AIMeet, NoDate, Pune, NoId, "meetup"),
      Ev(NoneVal, Day, Pune, Eb1, "eventbrite"),
      Ev(NoneVal, Day, Goa, NoId, "meetup") }

NoEvent == Ev(<<>>, <<>>, <<>>, <<>>, "")

----------------------------------------------------------------------------
(* deduplicate_and_store *)

ZeroStats == [new |-> 0, dup_exact |-> 0, dup_hash |-> 0, dup_fuzzy |-> 0, errors |-> 0]

NoIndex == [source_ids |-> {}, content_hashes |-> {}, events_list |-> <<>>, total |-> 0]

\* a selection that counts a content-hash duplicate as a fuzzy one
DupCounterHashAsFuzzy(reason) ==
    IF reason = "exact_source_id" THEN "dup_exact" ELSE "dup_fuzzy"

\* the counter a duplicate's reason selects (pipeline.py:88-93)
DupCounter(reason) ==
    IF reason = "exact_source_id" THEN "dup_exact"
    ELSE IF reason = "content_hash" THEN "dup_hash"
    ELSE "dup_fuzzy"

Bump(st, counter) == [st EXCEPT ![counter] = @ + 1]

\* a fold that forgets the content hash
FoldIndexNoHash(ev, sids, hashes, list) ==
    [source_ids |-> sids \cup {Str(ev.source_id)},
     content_hashes |-> hashes,
     events_list |-> Append(list, Lightweight(ev))]

\* a fold that forgets the {title, start_date, city} tuple
FoldIndexNoTuple(ev, sids, hashes, list) ==
    [source_ids |-> sids \cup {Str(ev.source_id)},
     content_hashes |-> hashes \cup {compute_content_hash(ev.title, ev.start_date, ev.city)},
     events_list |-> list]

\* the in-memory index after an accepted candidate is folded in (pipeline.py:100-112)
FoldIndex(ev, sids, hashes, list) ==
    [source_ids |-> sids \cup {Str(ev.source_id)},
     content_hashes |-> hashes \cup {compute_content_hash(ev.title, ev.start_date, ev.city)},
     events_list |-> Append(list, Lightweight(ev))]

\* lines 63-81: load the sheet once, copy the index, zero the counters
LoadExisting ==
    /\ pc = "idle"
    /\ runs < MaxRuns
    /\ existing' = load_existing_events(sheet)
    /\ source_ids' = existing'.source_ids
    /\ content_hashes' = existing'.content_hashes
    /\ events_list' = existing'.events_list
    /\ new_rows' = <<>>
    /\ stats' = ZeroStats
    /\ seen' = 0
    /\ runs' = runs + 1
    /\ event' = NoEvent
    /\ result' = NotDuplicate
    /\ pc' = "classify"
    /\ UNCHANGED <<sheet, fuzzy_threshold, fed, probe>>
    /\ UNCHANGED <<scrapeVars, runVars>>

\* a loop step without the except clause: a failing candidate is tallied,
\* but its exception ends the loop and the rows accepted so far are dropped
ClassifyAbortingOnFailure(ev) ==
    /\ pc = "classify"
    /\ fed < MaxEvents
    /\ LET r == is_duplicate(ev, source_ids, content_hashes, events_list, fuzzy_threshold)
           idx == FoldIndex(ev, source_ids, content_hashes, events_list)
       IN /\ event' = ev
          /\ result' = r
          /\ IF r = Raised
             THEN /\ stats' = Bump(stats, "errors")
                  /\ new_rows' = <<>>
                  /\ pc' = "idle"
                  /\ UNCHANGED <<source_ids, content_hashes, events_list>>
             ELSE IF r.dup
             THEN /\ stats' = Bump(stats, DupCounter(r.reason))
                  /\ UNCHANGED <<source_ids, content_hashes, events_list, new_rows, pc>>
             ELSE /\ new_rows' = Append(new_rows, prepare_event_row(ev))
                  /\ source_ids' = idx.source_ids
                  /\ content_hashes' = idx.content_hashes
                  /\ events_list' = idx.events_list
                  /\ stats' = Bump(stats, "new")
                  /\ UNCHANGED pc
    /\ seen' = seen + 1
    /\ fed' = fed + 1
    /\ UNCHANGED <<sheet, existing, fuzzy_threshold, runs, probe>>
    /\ UNCHANGED <<scrapeVars, runVars>>

\* a loop step that folds every candidate it did not fail on into the index,
\* duplicates included
ClassifyFoldingDuplicates(ev) ==
    /\ pc = "classify"
    /\ fed < MaxEvents
    /\ LET r == is_duplicate(ev, source_ids, content_hashes, events_list, fuzzy_threshold)
           idx == FoldIndex(ev, source_ids, content_hashes, events_list)
       IN /\ event' = ev
          /\ result' = r
          /\ IF r = Raised
             THEN /\ stats' = Bump(stats, "errors")
                  /\ UNCHANGED <<source_ids, content_hashes, events_list, new_rows>>
             ELSE /\ new_rows' = IF r.dup THEN new_rows
                                 ELSE Append(new_rows, prepare_event_row(ev))
                  /\ source_ids' = idx.source_ids
                  /\ content_hashes' = idx.content_hashes
                  /\ events_list' = idx.events_list
                  /\ stats' = Bump(stats, IF r.dup THEN DupCounter(r.reason) ELSE "new")
    /\ seen' = seen + 1
    /\ fed' = fed + 1
    /\ UNCHANGED <<sheet, pc, existing, fuzzy_threshold, runs, probe>>
    /\ UNCHANGED <<scrapeVars, runVars>>

\* lines 83-119: one iteration of the loop over all_events
Classify(ev) ==
    /\ pc = "classify"
    /\ fed < MaxEvents
    /\ LET r == is_duplicate(ev, source_ids, content_hashes, events_list, fuzzy_threshold)
           idx == FoldIndex(ev, source_ids, content_hashes, events_list)
       IN /\ event' = ev
          /\ result' = r
          /\ IF r = Raised
             THEN /\ stats' = Bump(stats, "errors")
                  /\ UNCHANGED <<source_ids, content_hashes, events_list, new_rows>>
             ELSE IF r.dup
             THEN /\ stats' = Bump(stats, DupCounter(r.reason))
                  /\ UNCHANGED <<source_ids, content_hashes, events_list, new_rows>>
             ELSE /\ new_rows' = Append(new_rows, prepare_event_row(ev))
                  /\ source_ids' = idx.source_ids
                  /\ content_hashes' = idx.content_hashes
                  /\ events_list' = idx.events_list
                  /\ stats' = Bump(stats, "new")
    /\ seen' = seen + 1
    /\ fed' = fed + 1
    /\ UNCHANGED <<sheet, pc, existing, fuzzy_threshold, runs, probe>>
    /\ UNCHANGED <<scrapeVars, runVars>>

\* lines 121-136: one bulk append of the accepted rows, then the summary
StoreBatch ==
    /\ pc = "classify"
    /\ sheet' = IF new_rows # <<>> THEN batch_append_events(sheet, new_rows) ELSE sheet
    /\ pc' = "idle"
    /\ UNCHANGED <<existing, source_ids, content_hashes, events_list, new_rows, stats,
                   event, result, fuzzy_threshold, seen, runs, fed, probe>>
    /\ UNCHANGED <<scrapeVars, runVars>>

Init ==
    /\ sheet = <<>>
    /\ pc = "idle"
    /\ existing = NoIndex
    /\ source_ids = {}
    /\ content_hashes = {}
    /\ events_list = <<>>
    /\ new_rows = <<>>
    /\ stats = ZeroStats
    /\ event = NoEvent
    /\ result = NotDuplicate
    /\ fuzzy_threshold = DefaultThreshold
    /\ seen = 0
    /\ runs = 0
    /\ fed = 0
    /\ probe = <<>>
    /\ NoScrape
    /\ NoRun

Next ==
    \/ LoadExisting
    \/ \E ev \in Events : Classify(ev)
    \/ StoreBatch

Spec == Init /\ [][Next]_vars

----------------------------------------------------------------------------
(* Properties of a run (specification Spec) *)

\* the normalized (title, day, city) triple of a record with text fields
NormTriple(r) ==
    <<normalize_text(r.title), normalize_date(r.start_date), normalize_text(r.city)>>

\* a step of the loop that classified a candidate
ClassifyStep == pc = "classify" /\ seen' = seen + 1

\* the triple as the claim words it: normalized title, start_date[:10] and
\* normalized city
CutTriple(r) ==
    <<normalize_text(r.title), Take(r.start_date, DateLen), normalize_text(r.city)>>

\* C1 as stated: within one run, every candidate whose normalized
\* (title, start_date[:10], city) equals that of a candidate accepted earlier
\* in the same run, and whose source id differs from that candidate's, is
\* rejected as a content_hash duplicate and counted under dup_hash.  It
\* fails: a candidate whose stripped source id is that of another row of the
\* index is answered by layer 1 and counted under dup_exact.
BatchSelfDedupAlwaysHash ==
    [][ (/\ ClassifyStep
         /\ IsText(event'.title) /\ IsText(event'.city)
         /\ \E i \in 1..Len(new_rows) :
               /\ CutTriple(new_rows[i]) = CutTriple(event')
               /\ new_rows[i].source_id # Str(event'.source_id))
        => /\ result' = HashDuplicate
           /\ new_rows' = new_rows
           /\ stats'.new = stats.new
           /\ stats'.dup_hash = stats.dup_hash + 1 ]_vars

\* C1: within one run, every candidate whose normalized triple (normalized
\* title, start_date trimmed and then cut to 10 characters, normalized city)
\* equals that of a candidate accepted earlier in the same run is rejected
\* and neither stored nor counted as new: when its stripped source id is
\* non-empty and among the source ids of the index, as exact_source_id and
\* under dup_exact; in every other case as a content_hash duplicate and under
\* dup_hash, whatever its source id.  So of several such candidates whose
\* source ids the index does not hold only the first is accepted.
BatchSelfDedup ==
    [][ (/\ ClassifyStep
         /\ IsText(event'.title) /\ IsText(event'.city)
         /\ \E i \in 1..Len(new_rows) : NormTriple(new_rows[i]) = NormTriple(event'))
        => /\ result'.dup
           /\ new_rows' = new_rows
           /\ stats'.new = stats.new
           /\ LET sid == Strip(Str(event'.source_id))
              IN IF sid # <<>> /\ sid \in source_ids
                 THEN /\ result' = ExactDuplicate
                      /\ stats'.dup_exact = stats.dup_exact + 1
                      /\ stats'.dup_hash = stats.dup_hash
                 ELSE /\ result' = HashDuplicate
                      /\ stats'.dup_hash = stats.dup_hash + 1
                      /\ stats'.dup_exact = stats.dup_exact ]_vars

\* C1 witness: from an empty store, a second candidate with another source id
\* and another spelling of the same triple (its date padded, so that the
\* first 10 characters differ) was rejected by its content hash, leaving
\* exactly one accepted row.
BatchSelfDedupWitness ==
    /\ pc = "classify"
    /\ existing.total = 0
    /\ result = HashDuplicate
    /\ stats.new = 1 /\ stats.dup_hash >= 1
    /\ Len(new_rows) = 1
    /\ NormTriple(new_rows[1]) = NormTriple(event)
    /\ CutTriple(new_rows[1]) # CutTriple(event)
    /\ new_rows[1].title # event.title
    /\ new_rows[1].source_id # Str(event.source_id)
    /\ Strip(new_rows[1].source_id) # Strip(Str(event.source_id))

\* a candidate with the triple of one accepted row and the source id of
\* another was answered by layer 1
SameTripleExactReached ==
    /\ pc = "classify"
    /\ existing.total = 0
    /\ result = ExactDuplicate
    /\ IsText(event.title) /\ IsText(event.city)
    /\ \E i \in 1..Len(new_rows) :
          /\ NormTriple(new_rows[i]) = NormTriple(event)
          /\ new_rows[i].source_id # Str(event.source_id)

\* C3: the store never holds two rows with the same non-empty source id.
NoTwoRowsShareSourceId ==
    \A i, j \in 1..Len(sheet) :
        (i # j /\ sheet[i].source_id # <<>>) => sheet[i].source_id # sheet[j].source_id

\* the rows accepted so far in this run, as index entries
AcceptedIds == {new_rows[i].source_id : i \in 1..Len(new_rows)}
AcceptedHashes == {new_rows[i].content_hash : i \in 1..Len(new_rows)}
AcceptedTuples == [i \in 1..Len(new_rows) |-> Lightweight(new_rows[i])]

\* C4: whenever a candidate is about to be classified, the index is the one
\* loaded from the store plus the source id, the content hash and the
\* {title, start_date, city} tuple of every candidate accepted so far in this
\* run, the tuples in acceptance order after the loaded ones.
IndexIsLoadedPlusAccepted ==
    pc = "classify" =>
        /\ existing = load_existing_events(sheet)
        /\ source_ids = existing.source_ids \cup AcceptedIds
        /\ content_hashes = existing.content_hashes \cup AcceptedHashes
        /\ events_list = existing.events_list \o AcceptedTuples
        /\ Len(new_rows) = stats.new

\* C4 witness: two candidates were accepted on top of a non-empty loaded index.
IndexIsLoadedPlusAcceptedWitness ==
    /\ pc = "classify"
    /\ existing.total >= 1
    /\ Len(new_rows) = 2
    /\ Len(events_list) = existing.total + 2
    /\ <<>> \in source_ids

\* a score below another
ScoreLess(a, b) == DoubleLess(a, b)

\* the indexed record k passes the gate with a similarity at or above the threshold
Qualifies(k) ==
    /\ normalize_date(events_list[k].start_date) = normalize_date(event.start_date)
    /\ normalize_text(events_list[k].city) = normalize_text(event.city)
    /\ normalize_date(event.start_date) # <<>>
    /\ AtLeast(Similarity(event, events_list[k]), fuzzy_threshold)

\* C9: a fuzzy_match reason carries the score of the first record, in the order
\* of the index (loaded records, then this run's accepted ones), that passes
\* the gate with a similarity at or above the threshold.
FuzzyScoreIsFirstQualifying ==
    (pc = "classify" /\ result.reason = "fuzzy_match") =>
        /\ events_list = existing.events_list \o AcceptedTuples
        /\ \E k \in 1..Len(events_list) :
              /\ Qualifies(k)
              /\ \A j \in 1..(k - 1) : ~Qualifies(j)
              /\ result.score = Similarity(event, events_list[k])

\* C9 witness: two records qualify, a loaded one first and one accepted in this
\* run second; the reported score is the first one's and is not the maximum.
FuzzyScoreIsFirstQualifyingWitness ==
    /\ pc = "classify"
    /\ result.reason = "fuzzy_match"
    /\ existing.total = 1 /\ Len(new_rows) = 1
    /\ Qualifies(1) /\ Qualifies(2)
    /\ result.score = Similarity(event, events_list[1])
    /\ ScoreLess(result.score, Similarity(event, events_list[2]))

----------------------------------------------------------------------------
(* Direct calls of is_duplicate (specification SpecClassify) *)

MaxIndexLen == 2

Rep(c, n) == [i \in 1..n |-> c]

Ab == <<"a", "b">>
Abc == <<"A", "b", "c">>
\* 20 characters each, 17 in common: similarity (1.0 - 6/40) * 100 = 85.0
Long20a == Rep("a", 17) \o <<"b", "c", "d">>
Long20b == Rep("a", 17) \o <<"x", "y", "z">>
\* 25 characters each, 21 in common: similarity (1.0 - 8/50) * 100 = 84.0
Long25a == Rep("a", 21) \o <<"b", "c", "d", "e">>
Long25b == Rep("a", 21) \o <<"w", "x", "y", "z">>
\* 7 characters, 1 in common with the 3 of Abc: (1.0 - 8/10) * 100 is
\* 19.999999999999996 in double arithmetic, just under 20
Axs == <<"a">> \o Rep("x", 6)

Blank == <<" ", " ">>
Ae3Stripped == <<"a", "e", "_", "3">>

\* the candidates of the direct calls
CallEvents ==
    { Ev(Ab, d, c, sid, "meetup") :
        d \in {Day, NoDate, Blank}, c \in {Pune, <<>>}, sid \in {Ae3, NoId} }
    \cup { Ev(t, Day, Pune, NoId, "eventbrite") : t \in {Long20a, Long25a, Axs} }

Rec(t, d, c) == [title |-> t, start_date |-> d, city |-> c]

\* the indexed records of the direct calls
CallRecords ==
    { Rec(Abc, Day, PuneVariant),
      Rec(Long20b, Day, PuneVariant),
      Rec(Long25b, DayTime, Pune),
      Rec(Ab, DayTime, Goa),
      Rec(Abc, NoDate, Pune),
      Rec(Abc, Day, <<>>) }

CallLists ==
    UNION { [1..n -> CallRecords] : n \in 0..MaxIndexLen }

CallIdSets == {{}, {Ae3Stripped}}

CallHashSets == {{}, {compute_content_hash(Ab, DayTime, PuneVariant)}}

\* the thresholds the calls pass: the ends of 0..100, the default, the
\* values at and next to the similarities 80, 84 and 85 the titles produce
\* (81 is one above 80, the default 85 one above 84), and 20, which the
\* rounded similarity of Axs and Abc falls just short of
CallThresholds == {0, 20, 80, 81, DefaultThreshold, 100}

InitClassify ==
    /\ pc = "call"
    /\ event \in CallEvents
    /\ source_ids \in CallIdSets
    /\ content_hashes \in CallHashSets
    /\ events_list \in CallLists
    /\ fuzzy_threshold \in CallThresholds
    /\ result = NotDuplicate
    /\ sheet = <<>>
    /\ existing = NoIndex
    /\ new_rows = <<>>
    /\ stats = ZeroStats
    /\ seen = 0
    /\ runs = 0
    /\ fed = 0
    /\ probe = <<>>
    /\ NoScrape
    /\ NoRun

\* is_duplicate(event, source_ids, content_hashes, events_list, fuzzy_threshold)
CallIsDuplicate ==
    /\ pc = "call"
    /\ result' = is_duplicate(event, source_ids, content_hashes, events_list, fuzzy_threshold)
    /\ pc' = "returned"
    /\ UNCHANGED <<sheet, existing, source_ids, content_hashes, events_list, new_rows,
                   stats, event, fuzzy_threshold, seen, runs, fed, probe>>
    /\ UNCHANGED <<scrapeVars, runVars>>

NextClassify == CallIsDuplicate

SpecClassify == InitClassify /\ [][NextClassify]_vars

----------------------------------------------------------------------------
(* Properties of is_duplicate (specification SpecClassify) *)

\* the call gets past layers 1 and 2
ReachesFuzzyLayer ==
    /\ ~(Strip(Str(event.source_id)) # <<>> /\ Strip(Str(event.source_id)) \in source_ids)
    /\ IsText(event.title) /\ IsText(event.city)
    /\ compute_content_hash(event.title, event.start_date, event.city) \notin content_hashes

\* the indexed record k has the candidate's normalized date and city, and the
\* candidate's normalized date is not empty
Gated(k) ==
    /\ normalize_date(events_list[k].start_date) = normalize_date(event.start_date)
    /\ normalize_text(events_list[k].city) = normalize_text(event.city)
    /\ normalize_date(event.start_date) # <<>>

Sim(k) == Similarity(event, events_list[k])

\* C2: the first matching layer is reported, in the order source id, content
\* hash, fuzzy title: a known non-empty source id gives exact_source_id even
\* when the hash is known too, and a known hash gives content_hash even when
\* an indexed record would fuzzy-match.
LayerOrder ==
    pc = "returned" =>
        LET sid == Strip(Str(event.source_id))
            known_id == sid # <<>> /\ sid \in source_ids
            known_hash ==
                compute_content_hash(event.title, event.start_date, event.city)
                    \in content_hashes
        IN /\ known_id => result = ExactDuplicate
           /\ (~known_id /\ known_hash) => result = HashDuplicate
           /\ result.reason = "fuzzy_match" => (~known_id /\ ~known_hash)

\* C2 witness: the source id and the hash are both known and an indexed record
\* qualifies for a fuzzy match; the call answered exact_source_id.
LayerOrderWitness ==
    /\ pc = "returned"
    /\ result = ExactDuplicate
    /\ compute_content_hash(event.title, event.start_date, event.city) \in content_hashes
    /\ \E k \in 1..Len(events_list) : Qualifies(k)

\* the second case of C2 is reached as well: the hash is known, the source id
\* is not, an indexed record qualifies, and the call answered content_hash
HashBeforeFuzzyReached ==
    /\ pc = "returned"
    /\ result = HashDuplicate
    /\ \E k \in 1..Len(events_list) : Qualifies(k)

\* C5: a fuzzy match is never reported against a record of another normalized
\* city: a reported fuzzy match is the score of a record with the candidate's
\* normalized city, and with no such record in the index there is none.
FuzzyNeverAcrossCities ==
    (pc = "returned" /\ result.reason = "fuzzy_match") =>
        \E k \in 1..Len(events_list) :
            /\ normalize_text(events_list[k].city) = normalize_text(event.city)
            /\ result.score = Sim(k)

\* C5 witness: the only records of the index are in other cities, one of them
\* on the same day with a title of similarity 100; the call found no duplicate.
FuzzyNeverAcrossCitiesWitness ==
    /\ pc = "returned"
    /\ result = NotDuplicate
    /\ Len(events_list) >= 1
    /\ \A k \in 1..Len(events_list) :
          normalize_text(events_list[k].city) # normalize_text(event.city)
    /\ \E k \in 1..Len(events_list) :
          /\ normalize_date(events_list[k].start_date) = normalize_date(event.start_date)
          /\ normalize_date(event.start_date) # <<>>
          /\ Sim(k) = Double(100)
    /\ fuzzy_threshold = DefaultThreshold

\* C6: a candidate whose normalized start_date is empty is never a fuzzy_match.
EmptyDateNeverFuzzy ==
    (pc = "returned" /\ normalize_date(event.start_date) = <<>>)
        => result.reason # "fuzzy_match"

\* C6 witness: candidate and indexed record both have an empty normalized date
\* and the same normalized city, the similarity reaches the threshold, and the
\* call found no duplicate.
EmptyDateNeverFuzzyWitness ==
    /\ pc = "returned"
    /\ result = NotDuplicate
    /\ normalize_date(event.start_date) = <<>>
    /\ \E k \in 1..Len(events_list) :
          /\ normalize_date(events_list[k].start_date) = <<>>
          /\ normalize_text(events_list[k].city) = normalize_text(event.city)
          /\ AtLeast(Sim(k), fuzzy_threshold)
          /\ fuzzy_threshold > 0

\* C7 as stated: a candidate whose normalized city is empty is never a fuzzy_match.
EmptyCityNeverFuzzy ==
    (pc = "returned" /\ normalize_text(event.city) = <<>>)
        => result.reason # "fuzzy_match"

\* C7 amended: a fuzzy match is reported only against a record with the
\* candidate's normalized date, which is not empty, and the candidate's
\* normalized city, which may be empty.
FuzzyOnlyOnSameDayAndCity ==
    (pc = "returned" /\ result.reason = "fuzzy_match") =>
        /\ normalize_date(event.start_date) # <<>>
        /\ \E k \in 1..Len(events_list) :
              /\ normalize_date(events_list[k].start_date) = normalize_date(event.start_date)
              /\ normalize_text(events_list[k].city) = normalize_text(event.city)
              /\ AtLeast(Sim(k), fuzzy_threshold)

\* C7 witness: a candidate with an empty normalized city was reported as a
\* fuzzy match of a record with an empty normalized city.
FuzzyOnlyOnSameDayAndCityWitness ==
    /\ pc = "returned"
    /\ result.reason = "fuzzy_match"
    /\ normalize_text(event.city) = <<>>
    /\ fuzzy_threshold > 0

\* C8: when layer 3 is reached, a gated record whose similarity equals the
\* threshold makes the call report a fuzzy match, and when every gated record
\* is one point below the threshold the call reports no duplicate.
ThresholdBoundary ==
    (pc = "returned" /\ ReachesFuzzyLayer) =>
        /\ (\E k \in 1..Len(events_list) :
                Gated(k) /\ Sim(k) = Double(fuzzy_threshold))
           => result.reason = "fuzzy_match"
        /\ (\A k \in 1..Len(events_list) :
                Gated(k) => Sim(k) = Double(fuzzy_threshold - 1))
           => result = NotDuplicate

\* C8 witness: at the default threshold a gated record of similarity exactly 85
\* was reported as a fuzzy match with that score.
ThresholdBoundaryWitness ==
    /\ pc = "returned"
    /\ ReachesFuzzyLayer
    /\ fuzzy_threshold = DefaultThreshold
    /\ \E k \in 1..Len(events_list) :
          Gated(k) /\ Sim(k) = Double(DefaultThreshold)
    /\ result.reason = "fuzzy_match"
    /\ result.score = Double(DefaultThreshold)

\* the other side of C8 is reached as well: at the default threshold the only
\* gated record has similarity exactly 84 and no duplicate was reported
OneBelowThresholdReached ==
    /\ pc = "returned"
    /\ ReachesFuzzyLayer
    /\ fuzzy_threshold = DefaultThreshold
    /\ \E k \in 1..Len(events_list) : Gated(k)
    /\ \A k \in 1..Len(events_list) :
          Gated(k) => Sim(k) = Double(DefaultThreshold - 1)
    /\ result = NotDuplicate

\* the comparison is made on the rounded double: one shared character of
\* ten would be 20 in exact arithmetic, the computed similarity is below
\* the threshold 20 and no duplicate was reported
RoundedBelowThresholdReached ==
    /\ pc = "returned"
    /\ ReachesFuzzyLayer
    /\ fuzzy_threshold = 20
    /\ \E k \in 1..Len(events_list) : Gated(k)
    /\ \A k \in 1..Len(events_list) :
          Gated(k) =>
              LET s1 == TokenSort(normalize_text(event.title))
                  s2 == TokenSort(normalize_text(events_list[k].title))
              IN  /\ 20 * (Len(s1) + Len(s2)) = 200 * Lcs(s1, s2)
                  /\ DoubleLess(Sim(k), Double(20))
    /\ result = NotDuplicate

----------------------------------------------------------------------------
(* Direct calls of compute_content_hash (specification SpecHash) *)

HashTitles == {<<"a">>, <<"A", " ">>, <<"a", "b">>, <<"a", "|", "b">>, <<>>}
HashDates == {<<>>, Day, PaddedDay, DayTime, <<"b">>, <<"b", "|">>}
HashCities == {<<>>, <<"c">>, <<"C", "!">>}

HashInputs ==
    { Rec(t, d, c) : t \in HashTitles, d \in HashDates, c \in HashCities }

InitHash ==
    /\ pc = "call"
    /\ probe \in { [a |-> x, b |-> y, ha |-> <<>>, hb |-> <<>>] :
                     x \in HashInputs, y \in HashInputs }
    /\ sheet = <<>>
    /\ existing = NoIndex
    /\ source_ids = {}
    /\ content_hashes = {}
    /\ events_list = <<>>
    /\ new_rows = <<>>
    /\ stats = ZeroStats
    /\ event = NoEvent
    /\ result = NotDuplicate
    /\ fuzzy_threshold = DefaultThreshold
    /\ seen = 0
    /\ runs = 0
    /\ fed = 0
    /\ NoScrape
    /\ NoRun

\* compute_content_hash on each of the two inputs
CallComputeContentHash ==
    /\ pc = "call"
    /\ probe' = [probe EXCEPT
          !.ha = compute_content_hash(probe.a.title, probe.a.start_date, probe.a.city),
          !.hb = compute_content_hash(probe.b.title, probe.b.start_date, probe.b.city)]
    /\ pc' = "returned"
    /\ UNCHANGED <<sheet, existing, source_ids, content_hashes, events_list, new_rows,
                   stats, event, result, fuzzy_threshold, seen, runs, fed>>
    /\ UNCHANGED <<scrapeVars, runVars>>

NextHash == CallComputeContentHash

SpecHash == InitHash /\ [][NextHash]_vars

\* C10 as stated: two inputs have the same content hash exactly when their
\* normalized titles, their dates cut to the first 10 characters and their
\* normalized cities are equal.
HashEqualIffTruncatedDatesEqual ==
    pc = "returned" =>
        ( probe.ha = probe.hb
          <=> /\ normalize_text(probe.a.title) = normalize_text(probe.b.title)
              /\ Take(probe.a.start_date, DateLen) = Take(probe.b.start_date, DateLen)
              /\ normalize_text(probe.a.city) = normalize_text(probe.b.city) )

\* C10 amended: two inputs have the same content hash exactly when their
\* normalized titles, their dates stripped of surrounding whitespace and then
\* cut to the first 10 characters, and their normalized cities are equal; the
\* pipe-joined strings of two different such triples differ.
HashEqualIffNormalizedEqual ==
    pc = "returned" =>
        ( probe.ha = probe.hb
          <=> /\ normalize_text(probe.a.title) = normalize_text(probe.b.title)
              /\ Take(Strip(probe.a.start_date), DateLen)
                   = Take(Strip(probe.b.start_date), DateLen)
              /\ normalize_text(probe.a.city) = normalize_text(probe.b.city) )

\* C10 witness: equal hashes for two inputs that differ in the spelling of the
\* title and the city and in the date, one date being cut to 10 characters and
\* the first 10 characters of the two dates being different.
HashEqualIffNormalizedEqualWitness ==
    /\ pc = "returned"
    /\ probe.ha = probe.hb
    /\ probe.a.title # probe.b.title
    /\ probe.a.city # probe.b.city
    /\ Len(Strip(probe.a.start_date)) > DateLen
    /\ Take(probe.a.start_date, DateLen) # Take(probe.b.start_date, DateLen)

----------------------------------------------------------------------------
(* Direct calls of normalize_text (specification SpecNormalize) *)

MaxTextLen == 3

\* an upper-case and a lower-case letter, the underscore (a word character),
\* two kinds of whitespace and a punctuation character
NormChars == {"A", "b", "_", " ", "\t", "-"}

NormTexts == UNION { [1..n -> NormChars] : n \in 0..MaxTextLen }

InitNormalize ==
    /\ pc = "call"
    /\ probe \in { [text |-> t, out |-> <<>>] : t \in NormTexts }
    /\ sheet = <<>>
    /\ existing = NoIndex
    /\ source_ids = {}
    /\ content_hashes = {}
    /\ events_list = <<>>
    /\ new_rows = <<>>
    /\ stats = ZeroStats
    /\ event = NoEvent
    /\ result = NotDuplicate
    /\ fuzzy_threshold = DefaultThreshold
    /\ seen = 0
    /\ runs = 0
    /\ fed = 0
    /\ NoScrape
    /\ NoRun

\* normalize_text(text)
CallNormalizeText ==
    /\ pc = "call"
    /\ probe' = [probe EXCEPT !.out = normalize_text(probe.text)]
    /\ pc' = "returned"
    /\ UNCHANGED <<sheet, existing, source_ids, content_hashes, events_list, new_rows,
                   stats, event, result, fuzzy_threshold, seen, runs, fed>>
    /\ UNCHANGED <<scrapeVars, runVars>>

NextNormalize == CallNormalizeText

SpecNormalize == InitNormalize /\ [][NextNormalize]_vars

IsUpper(c) == \E i \in 1..Len(UpperCase) : UpperCase[i] = c

\* no upper-case letter, only word characters and whitespace, no run of two
\* or more whitespace characters, no leading or trailing whitespace
IsCanonical(s) ==
    /\ \A i \in 1..Len(s) : ~IsUpper(s[i]) /\ (IsWord(s[i]) \/ IsSpace(s[i]))
    /\ \A i \in 1..(Len(s) - 1) : ~(IsSpace(s[i]) /\ IsSpace(s[i + 1]))
    /\ s # <<>> => ~IsSpace(s[1]) /\ ~IsSpace(s[Len(s)])

\* C11 as stated: the result of normalize_text is in canonical form for every
\* input text.  Punctuation is removed after the text was stripped and its
\* whitespace collapsed, so the whitespace around a removed character stays.
NormalizedIsCanonical ==
    pc = "returned" => IsCanonical(probe.out)

----------------------------------------------------------------------------
(* Failures, counters and the bulk write of a run (specification Spec) *)

\* C12 as stated: is_duplicate returns a decision and never raises, whatever
\* the candidate's fields hold.  normalize_text calls text.lower() on the
\* title and the city it is given, and event.get(key, "") hands it the None
\* of a field that is present and null.
IsDuplicateNeverRaises ==
    result # Raised

\* C13: when a candidate fails inside the loop, the errors counter grows by
\* one and no other counter changes, the index and the accepted rows are what
\* they were before the candidate, nothing is written, and the loop goes on
\* to the candidates that follow.
FailureIsIsolated ==
    [][ (ClassifyStep /\ result' = Raised)
        => /\ stats' = [stats EXCEPT !.errors = @ + 1]
           /\ UNCHANGED <<source_ids, content_hashes, events_list, new_rows, sheet>>
           /\ pc' = "classify"
           /\ (fed' < MaxEvents => (ENABLED (\E ev \in Events : Classify(ev)))') ]_vars

\* C13 witness: the first candidate of a run failed, the second was accepted.
FailureIsIsolatedWitness ==
    /\ pc = "classify"
    /\ seen = 2
    /\ stats.errors = 1
    /\ stats.new = 1
    /\ result = NotDuplicate
    /\ Len(new_rows) = 1
    /\ new_rows[1] = prepare_event_row(event)

CounterSum(st) == st.new + st.dup_exact + st.dup_hash + st.dup_fuzzy + st.errors

\* C14: the five counters always add up to the number of candidates consumed,
\* so at the end of the run to the number of input candidates; each candidate
\* increments exactly one counter by one: errors when it failed, new when it
\* was accepted, and for a duplicate the counter of the layer that matched.
CountersPartitionCandidates ==
    /\ [](CounterSum(stats) = seen)
    /\ [][ ClassifyStep
            => stats' = [stats EXCEPT
                  ![ IF result' = Raised THEN "errors"
                     ELSE IF result' = ExactDuplicate THEN "dup_exact"
                     ELSE IF result' = HashDuplicate THEN "dup_hash"
                     ELSE IF result'.dup THEN "dup_fuzzy"
                     ELSE "new" ] = @ + 1] ]_vars

\* C14 witness: a finished run of three candidates, one accepted, one a
\* content-hash duplicate and one failed.
CountersPartitionCandidatesWitness ==
    /\ pc = "idle"
    /\ runs = 1
    /\ seen = 3
    /\ stats = [new |-> 1, dup_exact |-> 0, dup_hash |-> 1, dup_fuzzy |-> 0, errors |-> 1]

\* C15: the events sheet changes only in the step that ends the
\* classification of a run, and then by exactly the accepted rows, one per
\* accepted candidate, in acceptance order, appended after the rows it held;
\* no step of the loop writes to it, and the step that writes ends the run.
SingleBulkWrite ==
    [][ /\ ClassifyStep => sheet' = sheet
        /\ sheet' # sheet
             => /\ pc = "classify" /\ pc' = "idle"
                /\ sheet' = sheet \o new_rows
                /\ Len(new_rows) = stats.new
                /\ UNCHANGED <<new_rows, stats, seen>> ]_vars

\* C15 witness: a finished run of three candidates wrote its two accepted
\* rows, in acceptance order, to the empty sheet.
SingleBulkWriteWitness ==
    /\ pc = "idle"
    /\ runs = 1
    /\ seen = 3
    /\ Len(new_rows) = 2
    /\ new_rows[1] # new_rows[2]
    /\ sheet = new_rows

----------------------------------------------------------------------------
(* scrape_all and run_scraper (specification SpecScrape) *)

\* ALL_SCRAPERS, in list order
Platforms == <<"eventbrite", "meetup", "allevents">>

\* the task list of lines 35-39: platforms outermost, then cities, then
\* categories
BuildTasks(cities, categories) ==
    LET nc == Len(cities)
        ng == Len(categories)
    IN [k \in 1..(Len(Platforms) * nc * ng) |->
          [platform |-> Platforms[((k - 1) \div (nc * ng)) + 1],
           city |-> cities[(((k - 1) \div ng) % nc) + 1],
           category |-> categories[((k - 1) % ng) + 1]]]

\* the task numbers of the largest of the ScrapeInputs
TaskIds == 1..(Len(Platforms) * 2)

\* number of entries in an answer that has any
MaxFetched == 3

\* the i-th entry of an answer (a result of the Eventbrite search, a node of
\* the Meetup query, a JSON-LD item of a page), reduced to what the parsers
\* of the three scrapers read for the fields kept here: the first names a
\* venue city and a category of its own, the second neither, the third has
\* no name, and so on
RawRecord(i) ==
    CASE i % 3 = 1 -> [id |-> i, name |-> TRUE, city |-> "Mumbai", category |-> "Music"]
      [] i % 3 = 2 -> [id |-> i, name |-> TRUE]
      [] OTHER -> [id |-> i]

\* the i-th event card of an allevents page: every second one has no title
Card(i) == IF i % 2 = 1 THEN [id |-> i, title |-> TRUE] ELSE [id |-> i]

Items == [i \in 1..MaxFetched |-> RawRecord(i)]

Cards == [i \in 1..MaxFetched |-> Card(i)]

\* allevents.py:156: _parse_html_cards reads cards[:20]
CardLimit == 20

\* a page with one card more than _parse_html_cards reads
ManyCards == [i \in 1..(CardLimit + 1) |-> Card(i)]

\* eventbrite.py:184: the names _get_demo_events draws a category from
DemoCategories == <<"Technology", "Music", "Business", "Arts", "Food", "Sports">>

\* the draws of random.choice(categories) of one _get_demo_events call, one
\* for each of its records
PickSeqs ==
    { <<DemoCategories[4], DemoCategories[5], DemoCategories[5],
        DemoCategories[4], DemoCategories[1]>>,
      <<DemoCategories[2], DemoCategories[2], DemoCategories[2],
        DemoCategories[5], DemoCategories[6]>> }

\* what a platform may answer a fetch with.  kind "ok" is status 200 with
\* the items (and, on an allevents page, the cards) given; "status" is
\* another status, where items is what the Eventbrite search page then
\* holds; "status_error" is another status with the request of the search
\* page failing; "error" is a request that raises inside fetch_events;
\* "raise" is a fetch_events that raises; picks are the draws of
\* random.choice a call of _get_demo_events makes
Response(kind, items, cards) ==
    [kind |-> kind, items |-> items, cards |-> cards, picks |-> <<>>]

ResponseCycle ==
    << Response("ok", Items, <<>>),
       Response("raise", <<>>, <<>>),
       Response("ok", <<>>, <<>>),
       Response("status", Items, <<>>),
       Response("error", <<>>, <<>>),
       Response("ok", <<>>, Cards),
       Response("ok", <<>>, ManyCards),
       Response("status_error", <<>>, <<>>) >>

\* the answers of one run: the cycle above from some position on, so that
\* every task meets every answer in one of them, or an answer with items
\* for every task
Worlds ==
    { [k \in TaskIds |->
          ResponseCycle[((k - 1 + s) % Len(ResponseCycle)) + 1]] :
        s \in 0..(Len(ResponseCycle) - 1) }
    \cup { [k \in TaskIds |-> ResponseCycle[1]] }

\* BaseScraper.normalize_event, for the fields kept here
normalize_event(platform, raw) ==
    [platform |-> platform,
     city |-> Get(raw, "city", ""),
     category |-> Get(raw, "category", ""),
     source_id |-> Get(raw, "source_id", "")]

\* EventbriteScraper._parse_event and the normalize_event of line 55: no
\* event without a name, else the venue's city (the task's when the venue
\* names none) and the category the entry names (or "")
eventbrite_parse_event(raw, t) ==
    IF "name" \notin DOMAIN raw THEN <<>>
    ELSE << normalize_event("eventbrite",
               [city |-> Get(raw, "city", t.city),
                category |-> Get(raw, "category", ""),
                source_id |-> <<"id", raw.id>>]) >>

\* EventbriteScraper._parse_jsonld and the normalize_event of lines 138, 142:
\* no check of the name, no category key
eventbrite_parse_jsonld(raw, t) ==
    << normalize_event("eventbrite",
          [city |-> Get(raw, "city", t.city),
           source_id |-> <<"id", raw.id>>]) >>

\* MeetupScraper._parse_event and the normalize_event of line 106
meetup_parse_event(raw, t) ==
    IF "name" \notin DOMAIN raw THEN <<>>
    ELSE << normalize_event("meetup",
               [city |-> Get(raw, "city", t.city),
                category |-> "Technology",
                source_id |-> <<"id", raw.id>>]) >>

\* AlleventsScraper._parse_jsonld and the normalize_event of line 78
allevents_parse_jsonld(raw, t) ==
    IF "name" \notin DOMAIN raw THEN <<>>
    ELSE << normalize_event("allevents",
               [city |-> Get(raw, "city", t.city),
                category |-> Get(raw, "category", ""),
                source_id |-> <<"id", raw.id>>]) >>

\* one card of AlleventsScraper._parse_html_cards: the task's city and the
\* task's category (or "Events")
allevents_parse_card(card, t) ==
    IF "title" \notin DOMAIN card THEN <<>>
    ELSE << normalize_event("allevents",
               [city |-> t.city,
                category |-> IF t.category # "" THEN t.category ELSE "Events",
                source_id |-> <<"id", card.id>>]) >>

\* the events a parser makes of the entries, in their order
ParseAll(parse(_, _), entries, t) ==
    LET F[n \in 0..Len(entries)] ==
            IF n = 0 THEN <<>> ELSE F[n - 1] \o parse(entries[n], t)
    IN F[Len(entries)]

\* what fetch_events of task t returns on status 200 (eventbrite.py:48-68,
\* meetup.py:98-118, allevents.py:60-94): the parsed entries, and for
\* allevents the parsed ones of the first 20 cards when the JSON-LD items
\* gave no event
Fetched(t, answer) ==
    CASE t.platform = "eventbrite" -> ParseAll(eventbrite_parse_event, answer.items, t)
      [] t.platform = "meetup" -> ParseAll(meetup_parse_event, answer.items, t)
      [] OTHER ->
          LET events == ParseAll(allevents_parse_jsonld, answer.items, t)
          IN IF events = <<>>
             THEN ParseAll(allevents_parse_card, Take(answer.cards, CardLimit), t)
             ELSE events

\* EventbriteScraper._fetch_via_search_page: the JSON-LD events of the search
\* page, or no event when its request raises
fetch_via_search_page(t, answer) ==
    IF answer.kind = "status_error" THEN <<>>
    ELSE ParseAll(eventbrite_parse_jsonld, answer.items, t)

\* _get_demo_events: titles[:5] for eventbrite, titles[:4] for the others,
\* with source ids eb_demo_{city}_{i}, mu_demo_{city}_{i}, ae_demo_{city}_{i}
DemoCount == [eventbrite |-> 5, meetup |-> 4, allevents |-> 4]

DemoPrefix == [eventbrite |-> "eb_demo", meetup |-> "mu_demo", allevents |-> "ae_demo"]

\* category or "Technology" (meetup.py:193), category or "Entertainment"
\* (allevents.py:221)
DemoDefault == [meetup |-> "Technology", allevents |-> "Entertainment"]

\* picks[i] is what random.choice(categories) gives for record i
\* (eventbrite.py:213), drawn only when the task names no category
DemoEvents(t, picks) ==
    [i \in 1..DemoCount[t.platform] |->
        [platform |-> t.platform, city |-> t.city,
         category |-> IF t.category # "" THEN t.category
                      ELSE IF t.platform = "eventbrite" THEN picks[i]
                      ELSE DemoDefault[t.platform],
         source_id |-> <<DemoPrefix[t.platform], t.city, i - 1>>]]

\* a flattening that puts the records of the fetch that finished first in front
FlattenFirstDoneFirst(rs, first) ==
    LET order == IF first = 0 THEN [k \in 1..Len(rs) |-> k]
                 ELSE <<first>> \o SelectSeq([k \in 1..Len(rs) |-> k], LAMBDA k : k # first)
        F[n \in 0..Len(rs)] == IF n = 0 THEN <<>> ELSE F[n - 1] \o rs[order[n]]
    IN F[Len(rs)]

\* [event for result in results for event in result]; gather returns the
\* results in the order of its arguments, whichever fetch finished first
Flatten(rs, first) ==
    LET F[n \in 0..Len(rs)] == IF n = 0 THEN <<>> ELSE F[n - 1] \o rs[n]
    IN F[Len(rs)]

Finished(k) == fetch[k] \in {"ok", "searched", "demo", "raised"}

Running == {k \in DOMAIN fetch : fetch[k] = "running"}

\* the cities and categories a run is started with; an empty item of
\* SCRAPER_CATEGORIES gives the category "" (main.py:30)
ScrapeInputs ==
    { [cities |-> <<"Pune">>, categories |-> <<"technology", "music">>],
      [cities |-> <<"Pune", "Goa">>, categories |-> <<"technology">>],
      [cities |-> <<"Goa">>, categories |-> <<"music", "">>] }

\* lines 35-48: the tasks are created and gathered, none has started
InitScrape ==
    /\ \E in \in ScrapeInputs : tasks = BuildTasks(in.cities, in.categories)
    /\ \E w \in Worlds, p \in PickSeqs :
          responses = [k \in DOMAIN tasks |-> [w[k] EXCEPT !.picks = p]]
    /\ fetch = [k \in DOMAIN tasks |-> "created"]
    /\ results = [k \in DOMAIN tasks |-> <<>>]
    /\ semaphore = SemaphoreLimit
    /\ first_done = 0
    /\ all_events = <<>>
    /\ phase = "scrape"
    /\ log = <<>>
    /\ refreshed = 0
    /\ NoOther
    /\ sheet = <<>>
    /\ pc = "idle"
    /\ existing = NoIndex
    /\ source_ids = {}
    /\ content_hashes = {}
    /\ events_list = <<>>
    /\ new_rows = <<>>
    /\ stats = ZeroStats
    /\ event = NoEvent
    /\ result = NotDuplicate
    /\ fuzzy_threshold = DefaultThreshold
    /\ seen = 0
    /\ runs = 0
    /\ fed = 0
    /\ probe = <<>>

dedupVars == <<sheet, pc, existing, source_ids, content_hashes, events_list,
               new_rows, stats, event, result, fuzzy_threshold, seen, runs, fed, probe>>

\* an entry into the semaphore that does not wait for a permit
AcquireUnlimited(k) ==
    /\ phase = "scrape"
    /\ k \in DOMAIN fetch
    /\ fetch[k] = "created"
    /\ fetch' = [fetch EXCEPT ![k] = "running"]
    /\ semaphore' = semaphore - 1
    /\ UNCHANGED <<tasks, responses, results, first_done, runVars, dedupVars>>

\* limited_task enters "async with semaphore" and starts its run_scraper
Acquire(k) ==
    /\ phase = "scrape"
    /\ k \in DOMAIN fetch
    /\ fetch[k] = "created"
    /\ semaphore > 0
    /\ fetch' = [fetch EXCEPT ![k] = "running"]
    /\ semaphore' = semaphore - 1
    /\ UNCHANGED <<tasks, responses, results, first_done, runVars, dedupVars>>

\* run_scraper returns rs for task k and limited_task releases its permit
Complete(k, outcome, rs) ==
    /\ phase = "scrape"
    /\ k \in DOMAIN fetch
    /\ fetch[k] = "running"
    /\ fetch' = [fetch EXCEPT ![k] = outcome]
    /\ results' = [results EXCEPT ![k] = rs]
    /\ semaphore' = semaphore + 1
    /\ first_done' = IF first_done = 0 THEN k ELSE first_done
    /\ UNCHANGED <<tasks, responses, runVars, dedupVars>>

\* fetch_events got status 200 and returns the events it parsed
FetchReturns(k) ==
    /\ k \in DOMAIN responses
    /\ responses[k].kind = "ok"
    /\ Complete(k, "ok", Fetched(tasks[k], responses[k]))

\* EventbriteScraper.fetch_events got another status and returns what
\* _fetch_via_search_page found (eventbrite.py:44-46)
FetchSearchesPage(k) ==
    /\ k \in DOMAIN responses
    /\ tasks[k].platform = "eventbrite"
    /\ responses[k].kind \in {"status", "status_error"}
    /\ Complete(k, "searched", fetch_via_search_page(tasks[k], responses[k]))

\* the request of fetch_events failed and its except clause returns demo
\* records (eventbrite.py:62-65, meetup.py:113-115, allevents.py:89-91), or
\* Meetup or allevents answered with another status (meetup.py:94-96,
\* allevents.py:56-58)
FetchFallsBack(k) ==
    /\ k \in DOMAIN responses
    /\ \/ responses[k].kind = "error"
       \/ /\ tasks[k].platform # "eventbrite"
          /\ responses[k].kind \in {"status", "status_error"}
    /\ Complete(k, "demo", DemoEvents(tasks[k], responses[k].picks))

\* fetch_events raised: run_scraper's except clause returns []
FetchRaises(k) ==
    /\ k \in DOMAIN responses
    /\ responses[k].kind = "raise"
    /\ Complete(k, "raised", <<>>)

\* gather has every result; scrape_all flattens them and returns
Gather ==
    /\ phase = "scrape"
    /\ \A k \in DOMAIN fetch : Finished(k)
    /\ all_events' = Flatten(results, first_done)
    /\ phase' = "scraped"
    /\ UNCHANGED <<scrapeVars, log, refreshed, otherVars, dedupVars>>

\* run_full_pipeline line 169: deduplicate_and_store(all_events, cities) starts
StartMatching ==
    /\ phase = "scraped"
    /\ phase' = "dedup"
    /\ UNCHANGED <<scrapeVars, all_events, log, refreshed, otherVars, dedupVars>>

NextScrape ==
    \/ \E k \in TaskIds : Acquire(k)
    \/ \E k \in TaskIds : FetchReturns(k)
    \/ \E k \in TaskIds : FetchSearchesPage(k)
    \/ \E k \in TaskIds : FetchFallsBack(k)
    \/ \E k \in TaskIds : FetchRaises(k)
    \/ Gather
    \/ StartMatching

SpecScrape == InitScrape /\ [][NextScrape]_vars

\* a step of task k
TaskStep(k) ==
    \/ Acquire(k)
    \/ FetchReturns(k)
    \/ FetchSearchesPage(k)
    \/ FetchFallsBack(k)
    \/ FetchRaises(k)

\* The event loop runs every task that stays ready: a fetch in progress ends
\* (each request has a 30 second timeout), and a task waiting for the
\* semaphore enters it once a permit is free.
FairSpecScrape ==
    SpecScrape /\ \A k \in TaskIds : WF_vars(TaskStep(k))

----------------------------------------------------------------------------
(* Properties of scrape_all (specifications SpecScrape, FairSpecScrape) *)

\* the tasks are the (platform, city, category) triples of some input,
\* enumerated with the platform varying slowest and the category fastest
TasksInCreationOrder ==
    \E in \in ScrapeInputs :
        LET nc == Len(in.cities)
            ng == Len(in.categories)
        IN /\ Len(tasks) = Len(Platforms) * nc * ng
           /\ \A p \in 1..Len(Platforms), c \in 1..nc, g \in 1..ng :
                 tasks[(p - 1) * nc * ng + (c - 1) * ng + g]
                   = [platform |-> Platforms[p], city |-> in.cities[c],
                      category |-> in.categories[g]]

\* number of records the tasks before task k returned
RECURSIVE Offset(_)
Offset(k) == IF k = 1 THEN 0 ELSE Offset(k - 1) + Len(results[k - 1])

\* C16: once scrape_all has returned and when the matching pass starts, every
\* fetch task has finished, and the candidate sequence is the results of the
\* tasks one after the other in task-creation order (platform, then city,
\* then category), whichever fetch finished first.
MatchingAfterOrderedGather ==
    phase \in {"scraped", "dedup"}
    => /\ \A k \in DOMAIN fetch : Finished(k)
       /\ TasksInCreationOrder
       /\ Len(all_events) = Offset(Len(tasks) + 1)
       /\ \A k \in DOMAIN tasks :
             SubSeq(all_events, Offset(k) + 1, Offset(k) + Len(results[k])) = results[k]

\* C16 witness: the matching pass starts after a run in which a later task
\* finished first and both it and the first task returned records.
MatchingAfterOrderedGatherWitness ==
    /\ phase = "dedup"
    /\ first_done > 1
    /\ results[1] # <<>>
    /\ results[first_done] # <<>>
    /\ all_events[1] = results[1][1]
    /\ \E k \in DOMAIN fetch : fetch[k] = "raised"

\* C17: never more than 5 fetches are in progress at once, and every task
\* eventually enters the semaphore and runs: as a task that has started never
\* returns to "created", a state is reached in which all of them have started.
BoundedConcurrency ==
    /\ [](Cardinality(Running) <= SemaphoreLimit)
    /\ <>(\A k \in DOMAIN fetch : fetch[k] # "created")

\* C17 witness: five fetches in progress, no permit left, a sixth task waiting.
BoundedConcurrencyWitness ==
    /\ Cardinality(Running) = SemaphoreLimit
    /\ semaphore = 0
    /\ \E k \in DOMAIN fetch : fetch[k] = "created"

\* C18 as stated: a fetch that failed contributes no record.  A request that
\* fails inside fetch_events makes the scraper return its demo records.
FailedFetchYieldsNothing ==
    \A k \in DOMAIN fetch : fetch[k] \in {"demo", "raised"} => results[k] = <<>>

----------------------------------------------------------------------------
(***************************************************************************)
(* analytics.py: compute_stats; sheets.py: the stats worksheet and         *)
(* update_stats.                                                           *)
(* A stats dict is the sequence of its items in insertion order.  A metric *)
(* name is the sequence of its fixed part and the characters (or the       *)
(* platform name) formatted into it.  The updated_at column of the stats   *)
(* rows, the same timestamp on every row, is left out.                     *)
(***************************************************************************)

Item(metric, value) == [metric |-> metric, value |-> value]

\* stats[metric] = value: a new key goes last, a known key keeps its place
Put(d, metric, value) ==
    IF \E i \in 1..Len(d) : d[i].metric = metric
    THEN [i \in 1..Len(d) |-> IF d[i].metric = metric THEN Item(metric, value) ELSE d[i]]
    ELSE Append(d, Item(metric, value))

\* the keys of Counter(vals), in the order of their first occurrence
Keys(vals) ==
    LET F[n \in 0..Len(vals)] ==
            IF n = 0 THEN <<>>
            ELSE IF \E i \in 1..Len(F[n - 1]) : F[n - 1][i] = vals[n] THEN F[n - 1]
            ELSE Append(F[n - 1], vals[n])
    IN F[Len(vals)]

\* Counter(vals)[v]
Count(vals, v) == Cardinality({i \in 1..Len(vals) : vals[i] = v})

\* Counter(vals).most_common(n): the keys by count, largest first, keys of
\* equal count in the order of their first occurrence; at most n of them
MostCommon(vals, n) ==
    LET keys == Keys(vals)
        Before(i) == {j \in 1..Len(keys) :
                         \/ Count(vals, keys[j]) > Count(vals, keys[i])
                         \/ Count(vals, keys[j]) = Count(vals, keys[i]) /\ j < i}
        sorted == [p \in 1..Len(keys) |->
                      keys[CHOOSE i \in 1..Len(keys) : Cardinality(Before(i)) = p - 1]]
    IN SubSeq(sorted, 1, IF Len(keys) < n THEN Len(keys) ELSE n)

\* s[:n]
Prefix(s, n) == SubSeq(s, 1, IF Len(s) < n THEN Len(s) ELSE n)

\* cat.replace(" ", "_").lower()[:30]
CleanCategory(cat) ==
    Prefix([i \in 1..Len(cat) |-> LowerChar(IF cat[i] = " " THEN "_" ELSE cat[i])], 30)

PlatformMetric(platform) == <<"platform_", platform>>

CityMetric(city) == <<"city_">> \o city

CategoryMetric(cat) == <<"category_">> \o CleanCategory(cat)

\* for key in keys: stats[name(key)] = the count of key among vals
PutCounts(d, name(_), keys, vals) ==
    LET F[n \in 0..Len(keys)] ==
            IF n = 0 THEN d ELSE Put(F[n - 1], name(keys[n]), Count(vals, keys[n]))
    IN F[Len(keys)]

\* compute_stats(events) with datetime.now() = now.  The events are the rows
\* of the events sheet as get_all_records returns them; "TRUE" and "FALSE"
\* are the only values of the is_active and is_free columns, so that
\* str(...).upper() leaves them as they are.
compute_stats(events, now) ==
    IF events = <<>> THEN <<Item(<<"total_events">>, 0)>>
    ELSE
      LET today_str == Prefix(now, 10)
          Rows == 1..Len(events)
          Active(e) == e.is_active = "TRUE"
          total == Len(events)
          active == Cardinality({i \in Rows : Active(events[i])})
          free_count == Cardinality({i \in Rows : events[i].is_free = "TRUE"})
          platforms == [i \in Rows |-> events[i].platform]
          cities == SelectSeq([i \in Rows |-> events[i].city], LAMBDA c : c # <<>>)
          categories == SelectSeq([i \in Rows |-> events[i].category], LAMBDA c : c # <<>>)
          added_today ==
              Cardinality({i \in Rows :
                  Prefix(events[i].scraped_at, Len(today_str)) = today_str})
          added_this_week ==
              Cardinality({i \in Rows :
                  Prefix(events[i].scraped_at, 7) = Prefix(today_str, 7)})
          upcoming ==
              Cardinality({i \in Rows :
                  /\ ~TextLess(events[i].start_date, today_str)
                  /\ Active(events[i])})
          stats0 ==
              << Item(<<"total_events">>, total),
                 Item(<<"active_events">>, active),
                 Item(<<"upcoming_events">>, upcoming),
                 Item(<<"free_events">>, free_count),
                 Item(<<"paid_events">>, total - free_count),
                 Item(<<"total_platforms">>, Len(Keys(platforms))),
                 Item(<<"added_today">>, added_today),
                 Item(<<"added_this_month">>, added_this_week),
                 Item(<<"last_updated">>, now) >>
          stats1 == PutCounts(stats0, PlatformMetric, Keys(platforms), platforms)
          stats2 == PutCounts(stats1, CityMetric, MostCommon(cities, 10), cities)
      IN PutCounts(stats2, CategoryMetric, MostCommon(categories, 10), categories)

\* sheets.py:137: rows = [[metric, value, now] for metric, value in stats.items()]
StatsRows(d) == [i \in 1..Len(d) |-> <<d[i].metric, d[i].value>>]

\* ws.row_count
RowCount(ws) == ws.row_count

\* ws.delete_rows(2, ws.row_count): the header row is what is left
delete_rows(ws) == [rows |-> <<>>, row_count |-> 1]

\* ws.append_rows(rows): below the last row with values, the grid growing
\* when it is too short
append_rows(ws, rows) ==
    LET used == 1 + Len(ws.rows) + Len(rows)
    IN [rows |-> ws.rows \o rows,
        row_count |-> IF ws.row_count < used THEN used ELSE ws.row_count]

\* lines 133-134 of update_stats
ClearStats(ws) == IF RowCount(ws) > 1 THEN delete_rows(ws) ELSE ws

\* lines 136-140 of update_stats
WriteStats(ws, d) == IF StatsRows(d) # <<>> THEN append_rows(ws, StatsRows(d)) ELSE ws

\* update_stats(spreadsheet, stats) on the stats worksheet ws
update_stats(ws, d) == WriteStats(ClearStats(ws), d)

\* refresh_stats (pipeline.py:139-147) with the events sheet holding rows
refresh_stats(ws, rows) == update_stats(ws, compute_stats(rows, Now))

----------------------------------------------------------------------------
(* run_full_pipeline after scrape_all returned (specification SpecRun) *)

MaxBatch == 2

TechTalk == <<"T", "e", "c", "h", " ", "T", "a", "l", "k">>

\* a candidate that names a category and is not free
PaidTalk ==
    [title |-> IMeetups, start_date |-> Day, city |-> Goa, source_id |-> Mu7,
     platform |-> "allevents", category |-> TechTalk, is_free |-> FALSE]

\* the candidates scrape_all hands to the run
RunEvents ==
    { Ev(AIMeet, Day, Pune, Eb1, "eventbrite"),
      Ev(AIMeet, Day, Pune, Mu7, "meetup"),
      Ev(AIMeetup, Day, Goa, Eb1, "eventbrite"),
      Ev(IMeetups, DayTime, Pune, NoId, "meetup"),
      Ev(NoneVal, Day, Goa, NoId, "meetup"),
      PaidTalk }

RunBatches == UNION { [1..n -> RunEvents] : n \in 0..MaxBatch }

\* the events sheet before the run: empty, or holding one row that a run
\* on the day of the event stored
InitialSheets ==
    { <<>>,
      <<[prepare_event_row(Ev(AIMeetup, Day, Pune, NoId, "allevents"))
            EXCEPT !.scraped_at = DayTime]>> }

\* the stats worksheet before the run: as created, or as the run that
\* stored the last row of the events sheet left it
InitialStats(rows) ==
    IF rows = <<>> THEN NewWorksheet
    ELSE update_stats(NewWorksheet, compute_stats(rows, rows[Len(rows)].scraped_at))

InitRun ==
    /\ all_events \in RunBatches
    /\ sheet \in InitialSheets
    /\ phase = "scraped"
    /\ log = <<>>
    /\ refreshed = 0
    /\ stats_sheet = InitialStats(sheet)
    /\ jobs = <<>>
    /\ loop = "none"
    /\ NoScrape
    /\ pc = "idle"
    /\ existing = NoIndex
    /\ source_ids = {}
    /\ content_hashes = {}
    /\ events_list = <<>>
    /\ new_rows = <<>>
    /\ stats = ZeroStats
    /\ event = NoEvent
    /\ result = NotDuplicate
    /\ fuzzy_threshold = DefaultThreshold
    /\ seen = 0
    /\ runs = 0
    /\ fed = 0
    /\ probe = <<>>

\* lines 195-215: the except clause tries to append an error row to the log
\* (a failure of that append is swallowed) and re-raises
Propagate ==
    /\ phase' = "raised"
    /\ \E logged \in BOOLEAN : log' = IF logged THEN Append(log, "error") ELSE log
    /\ UNCHANGED <<all_events, refreshed, otherVars, scrapeVars, dedupVars>>

\* a failed load that is swallowed: the run goes on with an empty index
LoadFailsSwallowed ==
    /\ phase = "dedup" /\ pc = "idle" /\ runs = 0
    /\ pc' = "classify"
    /\ UNCHANGED <<sheet, existing, source_ids, content_hashes, events_list, new_rows,
                   stats, event, result, fuzzy_threshold, seen, runs, fed, probe>>
    /\ UNCHANGED <<scrapeVars, runVars>>

\* get_spreadsheet, ensure_sheets_exist or load_existing_events raises
\* (lines 63-67); deduplicate_and_store has no handler
LoadFails ==
    /\ phase = "dedup" /\ pc = "idle" /\ runs = 0
    /\ Propagate

\* lines 63-81 of the run
RunLoadExisting ==
    /\ phase = "dedup" /\ runs = 0
    /\ LoadExisting

\* the loop of lines 83-119 takes the candidates in sequence order
RunClassify ==
    /\ phase = "dedup" /\ pc = "classify"
    /\ seen < Len(all_events)
    /\ Classify(all_events[seen + 1])

\* lines 121-136, after the last candidate
RunStoreBatch ==
    /\ phase = "dedup" /\ pc = "classify"
    /\ seen = Len(all_events)
    /\ StoreBatch

\* a failed append that is swallowed: deduplicate_and_store returns normally
AppendFailsSwallowed ==
    /\ phase = "dedup" /\ pc = "classify"
    /\ seen = Len(all_events)
    /\ new_rows # <<>>
    /\ pc' = "idle"
    /\ UNCHANGED <<sheet, existing, source_ids, content_hashes, events_list, new_rows,
                   stats, event, result, fuzzy_threshold, seen, runs, fed, probe>>
    /\ UNCHANGED <<scrapeVars, runVars>>

\* batch_append_events raises (line 123): no row is written
AppendFails ==
    /\ phase = "dedup" /\ pc = "classify"
    /\ seen = Len(all_events)
    /\ new_rows # <<>>
    /\ Propagate

\* line 172: refresh_stats rewrites the stats sheet from the rows of the
\* events sheet
RefreshStats ==
    /\ phase = "dedup" /\ pc = "idle" /\ runs = 1
    /\ stats_sheet' = refresh_stats(stats_sheet, sheet)
    /\ refreshed' = refreshed + 1
    /\ phase' = "refreshed"
    /\ UNCHANGED <<all_events, log, jobs, loop, scrapeVars, dedupVars>>

\* refresh_stats raises: before update_stats deleted the old rows, or at its
\* append_rows, after it deleted them
RefreshFails ==
    /\ phase = "dedup" /\ pc = "idle" /\ runs = 1
    /\ phase' = "raised"
    /\ \E logged \in BOOLEAN : log' = IF logged THEN Append(log, "error") ELSE log
    /\ \E cleared \in BOOLEAN :
          stats_sheet' = IF cleared THEN ClearStats(stats_sheet) ELSE stats_sheet
    /\ UNCHANGED <<all_events, refreshed, jobs, loop, scrapeVars, dedupVars>>

\* lines 175-193: the success row is appended to the log, the result returned
LogSuccess ==
    /\ phase = "refreshed"
    /\ log' = Append(log, "success")
    /\ phase' = "done"
    /\ UNCHANGED <<all_events, refreshed, otherVars, scrapeVars, dedupVars>>

\* the append of the success row raises
LogFails ==
    /\ phase = "refreshed"
    /\ Propagate

NextRun ==
    \/ StartMatching
    \/ RunLoadExisting
    \/ LoadFails
    \/ RunClassify
    \/ RunStoreBatch
    \/ AppendFails
    \/ RefreshStats
    \/ RefreshFails
    \/ LogSuccess
    \/ LogFails

SpecRun == InitRun /\ [][NextRun]_vars

----------------------------------------------------------------------------
(* Properties of run_full_pipeline (specification SpecRun) *)

Reported(status) == \E i \in 1..Len(log) : log[i] = status

\* a step in which the load of the existing records failed: the run was about
\* to load and did not start its loop
LoadFailedStep ==
    /\ phase = "dedup" /\ pc = "idle" /\ runs = 0
    /\ runs' = 0

\* C19: when loading the existing records fails, the error propagates out of
\* run_full_pipeline at once: no candidate is or will be classified, nothing
\* is appended to the events sheet, no stats refresh and no success row
\* follow, and the run takes no further step.
LoadFailureIsFatal ==
    [][ /\ LoadFailedStep
             => /\ phase' = "raised"
                /\ seen' = 0 /\ new_rows' = <<>> /\ stats' = ZeroStats
                /\ UNCHANGED <<sheet, refreshed, stats_sheet>>
                /\ ~Reported("success")'
        /\ ~(phase = "raised" /\ runs = 0) ]_vars

\* C19 witness: a run with candidates and a non-empty sheet whose load failed
\* has raised, with the error row in the log.
LoadFailureIsFatalWitness ==
    /\ phase = "raised"
    /\ runs = 0
    /\ all_events # <<>>
    /\ sheet # <<>>
    /\ log = <<"error">>

\* a step in which the bulk append failed: the loop had ended with accepted
\* rows and they were not written
AppendFailedStep ==
    /\ phase = "dedup" /\ pc = "classify"
    /\ seen = Len(all_events)
    /\ new_rows # <<>>
    /\ sheet' = sheet

\* C20: when the bulk append fails, the error propagates out of
\* run_full_pipeline at once: the stats sheet is not refreshed, no success
\* row is logged (at most an error row), and the run takes no further step,
\* so the append is not retried and no accepted row is written.
AppendFailureIsFatal ==
    [][ /\ AppendFailedStep
             => /\ phase' = "raised"
                /\ refreshed' = 0
                /\ stats_sheet' = stats_sheet
                /\ log' \in {<<>>, <<"error">>}
                /\ UNCHANGED <<new_rows, stats, pc>>
        /\ ~(phase = "raised" /\ pc = "classify") ]_vars

\* C20 witness: a run that accepted two rows and whose append failed has
\* raised; the sheet holds what it held before the run.
AppendFailureIsFatalWitness ==
    /\ phase = "raised"
    /\ pc = "classify"
    /\ Len(new_rows) = 2
    /\ sheet \in InitialSheets
    /\ refreshed = 0
    /\ log = <<"error">>

\* C21: the index changes only when the run loads it and when a candidate is
\* accepted: a loop step whose candidate is classified as a duplicate leaves
\* the source-id set, the hash set, the tuple list and the accepted rows as
\* they were (is_duplicate only reads them), and every other change of the
\* index comes with one more accepted row.
IndexChangesOnlyOnAcceptance ==
    [][ /\ (ClassifyStep /\ result'.dup)
             => UNCHANGED <<source_ids, content_hashes, events_list, new_rows>>
        /\ (<<source_ids, content_hashes, events_list>>'
               # <<source_ids, content_hashes, events_list>>)
             => \/ pc = "idle" /\ pc' = "classify"
                \/ /\ ClassifyStep
                   /\ ~result'.dup /\ result' # Raised
                   /\ new_rows' = Append(new_rows, prepare_event_row(event')) ]_vars

\* C21 witness: in a run that had accepted one candidate, the next one was
\* classified as a duplicate; the index holds the accepted candidate only.
IndexChangesOnlyOnAcceptanceWitness ==
    /\ phase = "dedup" /\ pc = "classify"
    /\ seen = 2
    /\ result.dup
    /\ Len(new_rows) = 1
    /\ sheet = <<>>
    /\ events_list = <<Lightweight(new_rows[1])>>
    /\ content_hashes = {new_rows[1].content_hash}

----------------------------------------------------------------------------
(***************************************************************************)
(* update_stats (sheets.py:128-141), called by refresh_stats               *)
(* (pipeline.py:139-147): SpecStats.                                       *)
(* A stats dict is the sequence of its items; the updated_at column, the   *)
(* same timestamp on every row, is left out.                               *)
(***************************************************************************)

\* the largest number of metrics of a stats dict
MaxMetrics == 2

MetricNames == {<<"total_events">>, <<"free_events">>}

MetricItems == [metric : MetricNames, value : 0..1]

\* dicts of at most MaxMetrics items, with distinct keys
StatsDicts ==
    UNION { { d \in [1..n -> MetricItems] :
                \A i, j \in 1..n : d[i].metric = d[j].metric => i = j }
            : n \in 0..MaxMetrics }

InitStats ==
    /\ \E new \in StatsDicts :
          /\ \/ stats_sheet = NewWorksheet
             \/ \E old \in StatsDicts : stats_sheet = update_stats(NewWorksheet, old)
          /\ probe = [stats |-> new, previous |-> stats_sheet.rows]
    /\ phase = "update_stats"
    /\ jobs = <<>> /\ loop = "none"
    /\ all_events = <<>> /\ log = <<>> /\ refreshed = 0
    /\ NoScrape
    /\ sheet = <<>>
    /\ pc = "idle"
    /\ existing = NoIndex
    /\ source_ids = {}
    /\ content_hashes = {}
    /\ events_list = <<>>
    /\ new_rows = <<>>
    /\ stats = ZeroStats
    /\ event = NoEvent
    /\ result = NotDuplicate
    /\ fuzzy_threshold = DefaultThreshold
    /\ seen = 0
    /\ runs = 0
    /\ fed = 0

\* update_stats raises: the stats sheet stays as the failing call left it
StatsRaise ==
    /\ phase' = "stats_raised"
    /\ UNCHANGED <<stats_sheet, probe, jobs, loop, all_events, log, refreshed,
                   scrapeVars, dedupVars>>

\* lines 133-134: if ws.row_count > 1: ws.delete_rows(2, ws.row_count)
DeleteOldRows ==
    /\ phase = "update_stats"
    /\ stats_sheet' = ClearStats(stats_sheet)
    /\ phase' = "cleared"
    /\ UNCHANGED <<probe, jobs, loop, all_events, log, refreshed,
                   scrapeVars, dedupVars>>

\* line 130 or line 134 raises: nothing was deleted
DeleteFails ==
    /\ phase = "update_stats"
    /\ StatsRaise

\* lines 136-141: if rows: ws.append_rows(rows), then the function returns
AppendNewRows ==
    /\ phase = "cleared"
    /\ stats_sheet' = WriteStats(stats_sheet, probe.stats)
    /\ phase' = "stats_updated"
    /\ UNCHANGED <<probe, jobs, loop, all_events, log, refreshed,
                   scrapeVars, dedupVars>>

\* line 140 raises: the old rows are already deleted
AppendRowsFails ==
    /\ phase = "cleared"
    /\ StatsRows(probe.stats) # <<>>
    /\ StatsRaise

NextStats ==
    \/ DeleteOldRows
    \/ DeleteFails
    \/ AppendNewRows
    \/ AppendRowsFails

SpecStats == InitStats /\ [][NextStats]_vars

\* C22: once update_stats has returned or raised, the stats sheet holds
\* either all the rows it held before the call or all the rows of the new
\* stats, never an empty or partial set.
StatsReplaceIsAtomic ==
    phase \in {"stats_updated", "stats_raised"}
        => stats_sheet.rows \in {probe.previous, StatsRows(probe.stats)}

----------------------------------------------------------------------------
(***************************************************************************)
(* Two overlapping run_full_pipeline coroutines in one event loop: the     *)
(* scheduled job (main.py:36-38, 58-65) and the background task of         *)
(* POST /api/scrape/trigger (main.py:102-105): SpecOverlap.                *)
(* Each run keeps its locals in jobs[r].  A run yields the event loop only *)
(* at the await of scrape_all (pipeline.py:166); deduplicate_and_store,    *)
(* refresh_stats and append_log are plain calls (169-187).                 *)
(***************************************************************************)

Runs == {"scheduled", "triggered"}

\* what the scrapes of the overlapping runs can return
OverlapEvents ==
    { Ev(AIMeet, Day, Pune, Eb1, "eventbrite"),
      Ev(IMeetups, DayTime, Goa, Eb1, "meetup"),
      Ev(AIMeetup, Day, PuneVariant, NoId, "meetup"),
      Ev(NoneVal, Day, Goa, NoId, "meetup") }

OverlapBatches == UNION { [1..n -> OverlapEvents] : n \in 0..MaxBatch }

\* the locals of a run that awaits its scrape (pipeline.py:158-166)
NewJob ==
    [at |-> "scrape", all_events |-> <<>>, existing |-> NoIndex,
     source_ids |-> {}, content_hashes |-> {}, events_list |-> <<>>,
     new_rows |-> <<>>, stats |-> ZeroStats, seen |-> 0,
     event |-> NoEvent, result |-> NotDuplicate, rank |-> 0]

InitOverlap ==
    /\ sheet \in InitialSheets
    /\ jobs = [r \in Runs |-> NewJob]
    /\ loop = "none"
    /\ stats_sheet = InitialStats(sheet)
    /\ all_events = <<>> /\ phase = "none" /\ log = <<>> /\ refreshed = 0
    /\ NoScrape
    /\ pc = "idle"
    /\ existing = NoIndex
    /\ source_ids = {}
    /\ content_hashes = {}
    /\ events_list = <<>>
    /\ new_rows = <<>>
    /\ stats = ZeroStats
    /\ event = NoEvent
    /\ result = NotDuplicate
    /\ fuzzy_threshold = DefaultThreshold
    /\ seen = 0
    /\ runs = 0
    /\ fed = 0
    /\ probe = <<>>

\* what no step of the overlapping runs touches
overlapFrame ==
    <<pc, existing, source_ids, content_hashes, events_list, new_rows, stats, event,
      result, fuzzy_threshold, seen, fed, probe, scrapeVars, all_events, phase>>

\* an event loop that runs the code of any run at any time
CanRunAlways(r) == TRUE

\* the event loop runs the code of run r: it is free, or r already occupies
\* it with the synchronous code that follows its scrape (pipeline.py:169-193)
CanRun(r) == loop \in {"none", r}

\* line 166: the await of scrape_all returns the candidate sequence
ScrapeReturns(r) ==
    /\ jobs[r].at = "scrape"
    /\ CanRun(r)
    /\ \E batch \in OverlapBatches :
          jobs' = [jobs EXCEPT ![r].at = "scraped", ![r].all_events = batch]
    /\ loop' = r
    /\ UNCHANGED <<sheet, runs, log, refreshed, stats_sheet, overlapFrame>>

\* deduplicate_and_store lines 63-81, called without await at line 169
JobLoad(r) ==
    /\ jobs[r].at = "scraped"
    /\ CanRun(r)
    /\ LET ex == load_existing_events(sheet)
       IN jobs' = [jobs EXCEPT ![r].at = "classify",
                               ![r].existing = ex,
                               ![r].source_ids = ex.source_ids,
                               ![r].content_hashes = ex.content_hashes,
                               ![r].events_list = ex.events_list,
                               ![r].rank = runs + 1]
    /\ runs' = runs + 1
    /\ loop' = r
    /\ UNCHANGED <<sheet, log, refreshed, stats_sheet, overlapFrame>>

\* the locals of a run after one iteration of its loop (pipeline.py:83-119)
Iterate(j) ==
    LET ev == j.all_events[j.seen + 1]
        r == is_duplicate(ev, j.source_ids, j.content_hashes, j.events_list,
                          DefaultThreshold)
        idx == FoldIndex(ev, j.source_ids, j.content_hashes, j.events_list)
        counted == [j EXCEPT !.event = ev, !.result = r, !.seen = @ + 1]
    IN  IF r = Raised THEN [counted EXCEPT !.stats = Bump(@, "errors")]
        ELSE IF r.dup THEN [counted EXCEPT !.stats = Bump(@, DupCounter(r.reason))]
        ELSE [counted EXCEPT !.new_rows = Append(@, prepare_event_row(ev)),
                             !.source_ids = idx.source_ids,
                             !.content_hashes = idx.content_hashes,
                             !.events_list = idx.events_list,
                             !.stats = Bump(@, "new")]

\* an iteration working on one index shared by all runs
JobClassifyShared(r) ==
    /\ jobs[r].at = "classify"
    /\ jobs[r].seen < Len(jobs[r].all_events)
    /\ CanRun(r)
    /\ LET j == Iterate(jobs[r])
       IN jobs' = [o \in Runs |->
                     IF o = r THEN j
                     ELSE [jobs[o] EXCEPT !.source_ids = j.source_ids,
                                          !.content_hashes = j.content_hashes,
                                          !.events_list = j.events_list]]
    /\ loop' = r
    /\ UNCHANGED <<sheet, runs, log, refreshed, stats_sheet, overlapFrame>>

\* lines 83-119 in run r
JobClassify(r) ==
    /\ jobs[r].at = "classify"
    /\ jobs[r].seen < Len(jobs[r].all_events)
    /\ CanRun(r)
    /\ jobs' = [jobs EXCEPT ![r] = Iterate(@)]
    /\ loop' = r
    /\ UNCHANGED <<sheet, runs, log, refreshed, stats_sheet, overlapFrame>>

\* lines 121-136 in run r
JobStore(r) ==
    /\ jobs[r].at = "classify"
    /\ jobs[r].seen = Len(jobs[r].all_events)
    /\ CanRun(r)
    /\ sheet' = IF jobs[r].new_rows # <<>>
                THEN batch_append_events(sheet, jobs[r].new_rows) ELSE sheet
    /\ jobs' = [jobs EXCEPT ![r].at = "stored"]
    /\ loop' = r
    /\ UNCHANGED <<runs, log, refreshed, stats_sheet, overlapFrame>>

\* run_full_pipeline lines 172-193: stats refreshed, success row logged, and
\* the coroutine returns
JobFinish(r) ==
    /\ jobs[r].at = "stored"
    /\ CanRun(r)
    /\ stats_sheet' = refresh_stats(stats_sheet, sheet)
    /\ refreshed' = refreshed + 1
    /\ log' = Append(log, "success")
    /\ jobs' = [jobs EXCEPT ![r].at = "done"]
    /\ loop' = "none"
    /\ UNCHANGED <<sheet, runs, overlapFrame>>

\* a call of the synchronous part raises; lines 195-215 try to log an error
\* row and re-raise, which ends the coroutine and discards its locals.  The
\* load (lines 63-67) or the bulk append (line 123) raises with the stats
\* sheet untouched; after the rows are stored, refresh_stats raises before
\* or after update_stats deleted the old stats rows, or the append of the
\* success row (lines 175-187) raises after refresh_stats rewrote them.
JobRaises(r) ==
    /\ jobs[r].at \in {"scraped", "classify", "stored"}
    /\ jobs[r].at = "classify" => jobs[r].seen = Len(jobs[r].all_events)
    /\ CanRun(r)
    /\ \E logged \in BOOLEAN : log' = IF logged THEN Append(log, "error") ELSE log
    /\ \E reached \in {"before", "cleared", "rewritten"} :
          /\ reached # "before" => jobs[r].at = "stored"
          /\ stats_sheet' = CASE reached = "before" -> stats_sheet
                              [] reached = "cleared" -> ClearStats(stats_sheet)
                              [] OTHER -> refresh_stats(stats_sheet, sheet)
          /\ refreshed' = IF reached = "rewritten" THEN refreshed + 1 ELSE refreshed
    /\ jobs' = [jobs EXCEPT ![r] = [NewJob EXCEPT !.at = "raised"]]
    /\ loop' = "none"
    /\ UNCHANGED <<sheet, runs, overlapFrame>>

NextOverlap ==
    \E r \in Runs :
       \/ ScrapeReturns(r)
       \/ JobLoad(r)
       \/ JobClassify(r)
       \/ JobStore(r)
       \/ JobFinish(r)
       \/ JobRaises(r)

SpecOverlap == InitOverlap /\ [][NextOverlap]_vars

\* the Match Index of a run: its two sets and its tuple list
MatchIndex(j) == <<j.source_ids, j.content_hashes, j.events_list>>

\* C23: each run exclusively owns its Match Index.  A step that changes the
\* locals of one run leaves the index of the other run as it was; the verdict
\* of an iteration is is_duplicate applied to the run's own index; and after
\* the load no step changes the structure load_existing_events returned, as
\* long as the run has not raised and dropped its locals.
ExclusiveMatchIndex ==
    [][ \A r \in Runs :
          jobs'[r] # jobs[r] =>
            /\ \A o \in Runs \ {r} : MatchIndex(jobs'[o]) = MatchIndex(jobs[o])
            /\ (jobs[r].at # "scraped" /\ jobs'[r].at # "raised")
                 => jobs'[r].existing = jobs[r].existing
            /\ (jobs[r].at = "classify" /\ jobs'[r].seen = jobs[r].seen + 1)
                 => jobs'[r].result =
                      is_duplicate(jobs[r].all_events[jobs[r].seen + 1],
                                   jobs[r].source_ids, jobs[r].content_hashes,
                                   jobs[r].events_list, DefaultThreshold) ]_vars

\* C23 witness: while the scheduled run is still in flight, awaiting its
\* scrape with nothing loaded, the triggered run has
\* accepted a candidate into its index; the loaded structure is as loaded.
ExclusiveMatchIndexWitness ==
    /\ jobs["scheduled"].at = "scrape"
    /\ jobs["triggered"].at = "classify"
    /\ jobs["triggered"].new_rows # <<>>
    /\ jobs["triggered"].existing.total = 1
    /\ Len(jobs["triggered"].events_list) = 2
    /\ jobs["triggered"].existing = load_existing_events(sheet)
    /\ MatchIndex(jobs["scheduled"]) = <<{}, {}, <<>>>>

\* run r is inside its load-classify-append section
InSection(r) == jobs[r].at \in {"classify", "stored"}

\* no two rows of the events sheet carry the same content hash
DistinctHashes ==
    \A i, j \in 1..Len(sheet) : sheet[i].content_hash = sheet[j].content_hash => i = j

\* C24: the rows of the events sheet, pairwise distinct in content_hash before
\* the runs, stay so while a scheduled and a triggered run overlap, and the
\* load-classify-append sections of the two runs are never interleaved.
HashesStayDistinct ==
    /\ DistinctHashes
    /\ \A a, b \in Runs : (InSection(a) /\ InSection(b)) => a = b

\* C24 witness: two overlapping runs were handed the same candidate; the one
\* that loaded first stored it, the other found it in the sheet.
HashesStayDistinctWitness ==
    /\ \A r \in Runs : /\ jobs[r].at = "done"
                        /\ jobs[r].all_events = <<Ev(AIMeet, Day, Pune, Eb1, "eventbrite")>>
    /\ jobs["triggered"].rank = 1 /\ jobs["triggered"].stats.new = 1
    /\ jobs["scheduled"].rank = 2 /\ jobs["scheduled"].result.dup
    /\ Len(sheet) = 1

\* run b is a re-run of run a: a completed before b loaded the sheet, and b
\* was handed the candidate sequence a was handed
IsRerun(a, b) ==
    /\ jobs[a].at = "done"
    /\ jobs[b].at \in {"classify", "stored", "done"}
    /\ jobs[a].rank < jobs[b].rank
    /\ jobs[b].all_events = jobs[a].all_events

\* C25: re-running is idempotent.  A run that loads the sheet after a
\* completed run and is fed the same candidate sequence accepts nothing
\* (new = 0, no accepted row), and its bulk-write step leaves the events
\* sheet as it was, whatever the sequence and the initial sheet.
RerunAcceptsNothing ==
    /\ [](\A a, b \in Runs :
            IsRerun(a, b) => jobs[b].stats.new = 0 /\ jobs[b].new_rows = <<>>)
    /\ [][ \A a, b \in Runs :
             (IsRerun(a, b) /\ jobs[b].at = "classify" /\ jobs'[b].at = "stored")
                => sheet' = sheet ]_vars

\* C25 witness: the first run accepted the first of two candidates and
\* rejected the second as a fuzzy match of it; the re-run rejected the first
\* by its source id and the second as a fuzzy match of the stored row, and
\* is done; the sheet holds the one accepted row.
RerunAcceptsNothingWitness ==
    /\ IsRerun("scheduled", "triggered")
    /\ jobs["triggered"].at = "done"
    /\ jobs["scheduled"].stats.new = 1
    /\ jobs["triggered"].seen = 2
    /\ jobs["scheduled"].stats.dup_fuzzy = 1
    /\ jobs["triggered"].stats.dup_exact = 1
    /\ jobs["triggered"].stats.dup_fuzzy = 1
    /\ Len(sheet) = 1

\* the rows run r knows: those in the sheet and those it accepted
KnownRows(r) ==
    {sheet[i] : i \in 1..Len(sheet)}
        \cup {jobs[r].new_rows[i] : i \in 1..Len(jobs[r].new_rows)}

\* C27: layer 1 rejects a candidate as exact_source_id only when a stored or
\* previously accepted row has both the candidate's platform and its source
\* id; listings of different platforms that share a source id are not
\* conflated.
ExactOnlyForSameListing ==
    \A r \in Runs :
       jobs[r].result = ExactDuplicate
          => \E row \in KnownRows(r) :
                /\ row.platform = jobs[r].event.platform
                /\ row.source_id = Strip(Str(jobs[r].event.source_id))

----------------------------------------------------------------------------
(***************************************************************************)
(* is_duplicate called with one candidate against an index and against a   *)
(* larger index: SpecMonotone.  The larger index is kept in probe.         *)
(***************************************************************************)

\* the largest number of records of the smaller list, and of the records
\* the larger list adds
MaxExtension == 1

MonotoneEvents ==
    { Ev(Ab, d, c, sid, "meetup") :
        d \in {Day, NoDate, Blank}, c \in {Pune, <<>>}, sid \in {Ae3, NoId} }
    \cup { Ev(NoneVal, Day, Pune, Ae3, "meetup") }

MonotoneRecords ==
    { Rec(Abc, Day, PuneVariant), Rec(Ab, DayTime, Goa), Rec(Abc, NoDate, Pune) }

MonotoneLists == UNION { [1..n -> MonotoneRecords] : n \in 0..MaxExtension }

InitMonotone ==
    /\ pc = "call"
    /\ event \in MonotoneEvents
    /\ source_ids \in CallIdSets
    /\ content_hashes \in CallHashSets
    /\ events_list \in MonotoneLists
    /\ fuzzy_threshold \in {80, DefaultThreshold}
    /\ \E more_ids \in SUBSET {Ae3Stripped, Eb1},
          more_hashes \in CallHashSets,
          more_events \in MonotoneLists :
          probe = [source_ids |-> source_ids \cup more_ids,
                   content_hashes |-> content_hashes \cup more_hashes,
                   events_list |-> events_list \o more_events,
                   result |-> NotDuplicate]
    /\ result = NotDuplicate
    /\ sheet = <<>>
    /\ existing = NoIndex
    /\ new_rows = <<>>
    /\ stats = ZeroStats
    /\ seen = 0
    /\ runs = 0
    /\ fed = 0
    /\ NoScrape
    /\ NoRun

\* is_duplicate on the index, then is_duplicate on the larger index
CallOnBothIndexes ==
    /\ pc = "call"
    /\ result' = is_duplicate(event, source_ids, content_hashes, events_list, fuzzy_threshold)
    /\ probe' = [probe EXCEPT !.result =
                    is_duplicate(event, probe.source_ids, probe.content_hashes,
                                 probe.events_list, fuzzy_threshold)]
    /\ pc' = "returned"
    /\ UNCHANGED <<sheet, existing, source_ids, content_hashes, events_list, new_rows,
                   stats, event, fuzzy_threshold, seen, runs, fed>>
    /\ UNCHANGED <<scrapeVars, runVars>>

NextMonotone == CallOnBothIndexes

SpecMonotone == InitMonotone /\ [][NextMonotone]_vars

\* C26: classification is monotone in the index.  A candidate reported as a
\* duplicate against an index is reported as a duplicate, possibly for
\* another reason, against an index with more source ids, more hashes and a
\* longer tuple list that starts with the original one.
MonotoneInIndex ==
    (pc = "returned" /\ result.dup) => probe.result.dup

\* C26 witness: a fuzzy duplicate against a one-record index is an exact
\* source-id duplicate against the larger index, which has one more record.
MonotoneInIndexWitness ==
    /\ pc = "returned"
    /\ result.reason = "fuzzy_match"
    /\ probe.result = ExactDuplicate
    /\ Len(events_list) = 1
    /\ Len(probe.events_list) = 2
    /\ source_ids # probe.source_ids

----------------------------------------------------------------------------
(* The log row of a run (SpecRun).  The error row carries new_added = 0      *)
(* (pipeline.py:206), the success row new_added = result["new"] (line 182). *)

\* the number of rows the run has appended to the events sheet
RowsStored == IF runs = 0 THEN 0 ELSE Len(sheet) - existing.total

\* the new_added column of a log row with this status
NewAdded(status) == IF status = "success" THEN stats.new ELSE 0

\* C28: when run_full_pipeline has returned or raised, it has appended
\* exactly one row to the log, and the new_added value of that row is the
\* number of rows the run appended to the events sheet; an error row, whose
\* new_added is 0, belongs to a run that stored no row.
OneLogRowMatchingStoredRows ==
    phase \in {"done", "raised"}
        => /\ Len(log) = 1
           /\ NewAdded(log[1]) = RowsStored

====
